---- MODULE Spec2Model ----
(***************************************************************************)
(* The rules engine of splendor-llm: Board, Player and Game, driven by the *)
(* turn loop of run_game (one execute_action, then next_player).  Cards    *)
(* and nobles are held by id; the catalog maps an id to its record.        *)
(***************************************************************************)
EXTENDS Integers, Sequences, FiniteSets, TLC

VARIABLES
    board,                 \* Board: gems, card_decks, displayed_cards, nobles
    players,               \* Game.players: seat -> gems, cards, reserved_cards, nobles
    num_players,           \* Game.num_players
    current_player_index,  \* Game.current_player_index
    round_number,          \* Game.round_number
    game_over,             \* Game.game_over
    winner,                \* Game.winner: None or a list of seats
    last_round,            \* Game.last_round
    last_player_index,     \* Game.last_player_index (absent until the last round)
    history,               \* Game.history
    call,                  \* the last call made on the Game and what it returned
    turn                   \* loop iterations of the driver since the start position

vars == <<board, players, num_players, current_player_index, round_number,
          game_over, winner, last_round, last_player_index, history, call, turn>>

----------------------------------------------------------------------------
(* Bounds of the model *)

\* most tokens of one color a player examined on its own holds
MaxHeld == 2

\* most owned cards a player examined on its own has
MaxOwned == 3

\* loop iterations of the driver explored from each start position
MaxTurns == 2

\* most tokens of one color in the pool of a board examined on its own
MaxPool == 2

\* most tokens of one color a request to such a board asks for
MaxTake == 2

\* most colors such a request names
MaxAsked == 3

----------------------------------------------------------------------------
(* card.py / noble.py: GemColor, Card, Noble and the catalog *)

WHITE == "white"
BLUE  == "blue"
GREEN == "green"
RED   == "red"
BLACK == "black"
GOLD  == "gold"

GemColor == {WHITE, BLUE, GREEN, RED, BLACK, GOLD}

\* the literal list [WHITE, BLUE, GREEN, RED, BLACK] the code iterates over
GemOrder == <<WHITE, BLUE, GREEN, RED, BLACK>>

NonGold == GemColor \ {GOLD}

\* a color -> count dictionary over the five non-Gold colors; a key the
\* dictionary does not hold reads as 0, as with dict.get(color, 0)
Cost(w, b, g, r, k) ==
    (WHITE :> w) @@ (BLUE :> b) @@ (GREEN :> g) @@ (RED :> r) @@ (BLACK :> k)

Card(level, points, gem_color, cost, card_id) ==
    [level |-> level, points |-> points, gem_color |-> gem_color,
     cost |-> cost, card_id |-> card_id]

Noble(points, requirements, noble_id) ==
    [points |-> points, requirements |-> requirements, noble_id |-> noble_id]

create_standard_cards ==
    <<
       Card(1, 0, "white", Cost(0, 1, 1, 1, 1), "L1_W1"),
       Card(1, 0, "white", Cost(0, 1, 2, 1, 1), "L1_W2"),
       Card(1, 0, "white", Cost(0, 2, 2, 0, 1), "L1_W3"),
       Card(1, 1, "white", Cost(0, 4, 0, 0, 0), "L1_W4"),
       Card(1, 0, "blue", Cost(1, 0, 1, 1, 1), "L1_B1"),
       Card(1, 0, "blue", Cost(1, 0, 1, 2, 1), "L1_B2"),
       Card(1, 0, "blue", Cost(1, 0, 0, 2, 2), "L1_B3"),
       Card(1, 1, "blue", Cost(0, 0, 0, 4, 0), "L1_B4"),
       Card(1, 0, "green", Cost(1, 1, 0, 1, 1), "L1_G1"),
       Card(1, 0, "green", Cost(1, 1, 0, 1, 2), "L1_G2"),
       Card(1, 0, "green", Cost(2, 1, 0, 0, 2), "L1_G3"),
       Card(1, 1, "green", Cost(0, 0, 0, 0, 4), "L1_G4"),
       Card(1, 0, "red", Cost(1, 1, 1, 0, 1), "L1_R1"),
       Card(1, 0, "red", Cost(2, 1, 1, 0, 1), "L1_R2"),
       Card(1, 0, "red", Cost(2, 2, 1, 0, 0), "L1_R3"),
       Card(1, 1, "red", Cost(4, 0, 0, 0, 0), "L1_R4"),
       Card(1, 0, "black", Cost(1, 1, 1, 1, 0), "L1_K1"),
       Card(1, 0, "black", Cost(1, 2, 1, 1, 0), "L1_K2"),
       Card(1, 0, "black", Cost(1, 2, 2, 0, 0), "L1_K3"),
       Card(1, 1, "black", Cost(0, 0, 4, 0, 0), "L1_K4"),
       Card(2, 1, "white", Cost(0, 3, 2, 2, 0), "L2_W1"),
       Card(2, 1, "white", Cost(0, 3, 3, 0, 2), "L2_W2"),
       Card(2, 2, "white", Cost(0, 5, 0, 0, 0), "L2_W3"),
       Card(2, 1, "blue", Cost(2, 0, 2, 3, 0), "L2_B1"),
       Card(2, 1, "blue", Cost(2, 0, 0, 3, 3), "L2_B2"),
       Card(2, 2, "blue", Cost(5, 0, 0, 0, 0), "L2_B3"),
       Card(2, 1, "green", Cost(3, 2, 0, 0, 2), "L2_G1"),
       Card(2, 1, "green", Cost(3, 0, 0, 2, 3), "L2_G2"),
       Card(2, 2, "green", Cost(0, 5, 0, 0, 0), "L2_G3"),
       Card(2, 1, "red", Cost(2, 0, 3, 0, 2), "L2_R1"),
       Card(2, 1, "red", Cost(0, 2, 3, 0, 3), "L2_R2"),
       Card(2, 2, "red", Cost(0, 0, 0, 0, 5), "L2_R3"),
       Card(2, 1, "black", Cost(2, 2, 0, 3, 0), "L2_K1"),
       Card(2, 1, "black", Cost(3, 0, 2, 3, 0), "L2_K2"),
       Card(2, 2, "black", Cost(0, 0, 0, 5, 0), "L2_K3"),
       Card(3, 3, "white", Cost(0, 3, 3, 3, 5), "L3_W1"),
       Card(3, 4, "white", Cost(0, 0, 0, 7, 0), "L3_W2"),
       Card(3, 3, "blue", Cost(3, 0, 3, 5, 3), "L3_B1"),
       Card(3, 4, "blue", Cost(0, 0, 0, 0, 7), "L3_B2"),
       Card(3, 3, "green", Cost(5, 3, 0, 3, 3), "L3_G1"),
       Card(3, 4, "green", Cost(7, 0, 0, 0, 0), "L3_G2"),
       Card(3, 3, "red", Cost(3, 5, 3, 0, 3), "L3_R1"),
       Card(3, 4, "red", Cost(0, 0, 7, 0, 0), "L3_R2"),
       Card(3, 3, "black", Cost(3, 3, 5, 3, 0), "L3_K1"),
       Card(3, 4, "black", Cost(0, 7, 0, 0, 0), "L3_K2")
    >>
create_standard_nobles ==
    <<
       Noble(3, Cost(4, 0, 0, 4, 0), "N1"),
       Noble(3, Cost(3, 3, 0, 3, 0), "N2"),
       Noble(3, Cost(0, 4, 4, 0, 0), "N3"),
       Noble(3, Cost(0, 0, 0, 4, 4), "N4"),
       Noble(3, Cost(3, 3, 0, 0, 3), "N5"),
       Noble(3, Cost(0, 0, 4, 0, 4), "N6"),
       Noble(3, Cost(3, 0, 3, 0, 3), "N7"),
       Noble(3, Cost(0, 3, 3, 3, 0), "N8"),
       Noble(3, Cost(4, 4, 0, 0, 0), "N9"),
       Noble(3, Cost(0, 0, 3, 3, 3), "N10")
    >>

\* the Card of the catalog with this id
CardOf(card_id) ==
    create_standard_cards[CHOOSE i \in DOMAIN create_standard_cards :
                              create_standard_cards[i].card_id = card_id]

\* the Noble of the catalog with this id
NobleOf(noble_id) ==
    create_standard_nobles[CHOOSE i \in DOMAIN create_standard_nobles :
                               create_standard_nobles[i].noble_id = noble_id]

----------------------------------------------------------------------------
(* list and arithmetic helpers *)

Min(a, b) == IF a < b THEN a ELSE b

Max(a, b) == IF a > b THEN a ELSE b

RECURSIVE SumSeq(_)
SumSeq(s) == IF s = <<>> THEN 0 ELSE Head(s) + SumSeq(Tail(s))

\* list.pop(i), 1-based: the list without its i-th element
PopAt(s, i) == SubSeq(s, 1, i - 1) \o SubSeq(s, i + 1, Len(s))

\* position of the first card of the list with this id, 0 when there is none
\* (the "for i, c in enumerate(...): if c.card_id == card_id: ... break" scans)
FindCard(cards, card_id) ==
    IF \E i \in DOMAIN cards : cards[i].card_id = card_id
    THEN CHOOSE i \in DOMAIN cards :
             /\ cards[i].card_id = card_id
             /\ \A j \in 1..(i - 1) : cards[j].card_id # card_id
    ELSE 0

\* the same scan over a list of nobles
FindNoble(nobles, noble_id) ==
    IF \E i \in DOMAIN nobles : nobles[i].noble_id = noble_id
    THEN CHOOSE i \in DOMAIN nobles :
             /\ nobles[i].noble_id = noble_id
             /\ \A j \in 1..(i - 1) : nobles[j].noble_id # noble_id
    ELSE 0

----------------------------------------------------------------------------
(* player.py: Player *)

NoGems == [c \in GemColor |-> 0]

NewPlayer == [gems |-> NoGems, cards |-> <<>>, reserved_cards |-> <<>>, nobles |-> <<>>]

get_total_gems(p) ==
    p.gems[WHITE] + p.gems[BLUE] + p.gems[GREEN] + p.gems[RED] + p.gems[BLACK] + p.gems[GOLD]

get_card_discounts(p) ==
    [color \in NonGold |->
        Cardinality({i \in DOMAIN p.cards : p.cards[i].gem_color = color})]

\* can_afford_card that does not count the owned cards' discounts
can_afford_card_no_discount(p, card) ==
    LET short(color) == IF p.gems[color] < card.cost[color]
                        THEN card.cost[color] - p.gems[color]
                        ELSE 0
        gold_needed == SumSeq([i \in DOMAIN GemOrder |-> short(GemOrder[i])])
    IN  gold_needed <= p.gems[GOLD]

\* can_afford_card that holds the Gold against each short color on its
\* own instead of against their sum
can_afford_card_per_color(p, card) ==
    LET discounts == get_card_discounts(p)
        available(color) == p.gems[color] + discounts[color]
    IN  \A color \in NonGold :
            available(color) < card.cost[color]
                => card.cost[color] - available(color) <= p.gems[GOLD]

can_afford_card(p, card) ==
    LET discounts == get_card_discounts(p)
        available(color) == p.gems[color] + discounts[color]
        short(color) == IF available(color) < card.cost[color]
                        THEN card.cost[color] - available(color)
                        ELSE 0
        gold_needed == SumSeq([i \in DOMAIN GemOrder |-> short(GemOrder[i])])
    IN  gold_needed <= p.gems[GOLD]

\* get_actual_cost that charges the listed cost and ignores the discounts
get_actual_cost_no_discount(p, card) ==
    LET remaining_cost(color) == card.cost[color]
        own(color) == IF remaining_cost(color) > 0
                      THEN Min(remaining_cost(color), p.gems[color])
                      ELSE 0
        rest(color) == remaining_cost(color) - own(color)
        gold_needed(color) == IF rest(color) > 0 /\ p.gems[GOLD] > 0
                              THEN Min(rest(color), p.gems[GOLD])
                              ELSE 0
    IN  [color \in GemColor |->
            IF color = GOLD
            THEN SumSeq([i \in DOMAIN GemOrder |-> gold_needed(GemOrder[i])])
            ELSE own(color)]

\* the payment dictionary; a color it does not hold reads as 0
get_actual_cost(p, card) ==
    LET discounts == get_card_discounts(p)
        remaining_cost(color) == Max(0, card.cost[color] - discounts[color])
        own(color) == IF remaining_cost(color) > 0
                      THEN Min(remaining_cost(color), p.gems[color])
                      ELSE 0
        rest(color) == remaining_cost(color) - own(color)
        gold_needed(color) == IF rest(color) > 0 /\ p.gems[GOLD] > 0
                              THEN Min(rest(color), p.gems[GOLD])
                              ELSE 0
    IN  [color \in GemColor |->
            IF color = GOLD
            THEN SumSeq([i \in DOMAIN GemOrder |-> gold_needed(GemOrder[i])])
            ELSE own(color)]

get_score(p) ==
    SumSeq([i \in DOMAIN p.cards |-> p.cards[i].points])
    + SumSeq([i \in DOMAIN p.nobles |-> p.nobles[i].points])

can_be_visited_by_noble(p, noble) ==
    LET discounts == get_card_discounts(p)
    IN  \A color \in NonGold : discounts[color] >= noble.requirements[color]

----------------------------------------------------------------------------
(* board.py: Board.  A deck is a list whose top is its last element        *)
(* (list.pop()).                                                           *)

Levels == {1, 2, 3}

_initialize_gems(n) ==
    LET base_gems == CASE n = 2 -> 4
                       [] n = 3 -> 5
                       [] n = 4 -> 7
                       [] OTHER -> 4
    IN  [color \in GemColor |-> IF color = GOLD THEN 5 ELSE base_gems]

\* one level of replenish_displayed_cards: draw while the display holds
\* fewer than 4 cards and the deck is not empty
RECURSIVE ReplenishLevel(_, _)
ReplenishLevel(displayed, deck) ==
    IF Len(displayed) < 4 /\ deck # <<>>
    THEN ReplenishLevel(Append(displayed, deck[Len(deck)]), SubSeq(deck, 1, Len(deck) - 1))
    ELSE [displayed |-> displayed, deck |-> deck]

\* replenish_displayed_cards that draws nothing
replenish_displayed_cards_none(b) == b

replenish_displayed_cards(b) ==
    [b EXCEPT !.displayed_cards =
                  [level \in Levels |->
                      ReplenishLevel(b.displayed_cards[level], b.card_decks[level]).displayed],
              !.card_decks =
                  [level \in Levels |->
                      ReplenishLevel(b.displayed_cards[level], b.card_decks[level]).deck]]

\* remove_displayed_card that finds the card and leaves it in the display
remove_displayed_card_kept(b, level, card_id) == b

remove_displayed_card(b, level, card_id) ==
    LET i == FindCard(b.displayed_cards[level], card_id)
    IN  IF i = 0
        THEN b
        ELSE replenish_displayed_cards(
                 [b EXCEPT !.displayed_cards[level] = PopAt(@, i)])

\* take_gems that reports success without decrementing the pool
take_gems_keeps_pool(gems, gems_to_take) ==
    IF \E color \in DOMAIN gems_to_take : gems[color] < gems_to_take[color]
    THEN [ok |-> FALSE, gems |-> gems]
    ELSE [ok |-> TRUE, gems |-> gems]

\* take_gems that decrements as it checks, color by color in the order of
\* GemOrder, Gold last: the colors before the first short one are deducted
\* although the call returns False
take_gems_partial(gems, gems_to_take) ==
    LET order == GemOrder \o <<GOLD>>
        short(i) == /\ order[i] \in DOMAIN gems_to_take
                    /\ gems[order[i]] < gems_to_take[order[i]]
        reached(i) == \A j \in 1..(i - 1) : ~short(j)
    IN  [ok |-> \A i \in DOMAIN order : ~short(i),
         gems |-> [color \in GemColor |->
                      IF /\ color \in DOMAIN gems_to_take
                         /\ \E i \in DOMAIN order :
                                order[i] = color /\ reached(i) /\ ~short(i)
                      THEN gems[color] - gems_to_take[color]
                      ELSE gems[color]]]

\* take_gems: [ok, gems], the returned flag and the pool after the call
take_gems(gems, gems_to_take) ==
    IF \E color \in DOMAIN gems_to_take : gems[color] < gems_to_take[color]
    THEN [ok |-> FALSE, gems |-> gems]
    ELSE [ok |-> TRUE,
          gems |-> [color \in GemColor |->
                       IF color \in DOMAIN gems_to_take
                       THEN gems[color] - gems_to_take[color]
                       ELSE gems[color]]]

\* remove_noble that leaves the noble on the board
remove_noble_kept(b, noble_id) == b

remove_noble(b, noble_id) ==
    LET i == FindNoble(b.nobles, noble_id)
    IN  IF i = 0 THEN b ELSE [b EXCEPT !.nobles = PopAt(@, i)]

----------------------------------------------------------------------------
(* game.py: ActionType and Action.  An Action is its type and its keyword  *)
(* parameters; a parameter the caller leaves out holds the value that      *)
(* params.get reads for it.                                                *)

TAKE_DIFFERENT_GEMS == "take_different_gems"
TAKE_SAME_GEMS      == "take_same_gems"
RESERVE_CARD        == "reserve_card"
BUY_CARD            == "buy_card"
BUY_RESERVED_CARD   == "buy_reserved_card"

ActionType == {TAKE_DIFFERENT_GEMS, TAKE_SAME_GEMS, RESERVE_CARD, BUY_CARD, BUY_RESERVED_CARD}

\* Python's None where a color, a card id or a level is expected
NoColor == "None"
NoCard  == "None"
NoLevel == 0

Action(action_type, colors, color, level, card_id, from_deck) ==
    [action_type |-> action_type, colors |-> colors, color |-> color,
     level |-> level, card_id |-> card_id, from_deck |-> from_deck]

TakeDifferent(colors) == Action(TAKE_DIFFERENT_GEMS, colors, NoColor, NoLevel, NoCard, FALSE)
TakeSame(color)       == Action(TAKE_SAME_GEMS, <<>>, color, NoLevel, NoCard, FALSE)
Reserve(level, id)    == Action(RESERVE_CARD, <<>>, NoColor, level, id, FALSE)
ReserveDeck(level)    == Action(RESERVE_CARD, <<>>, NoColor, level, NoCard, TRUE)
Buy(level, id)        == Action(BUY_CARD, <<>>, NoColor, level, id, FALSE)
BuyReserved(id)       == Action(BUY_RESERVED_CARD, <<>>, NoColor, NoLevel, id, FALSE)

Range(s) == {s[i] : i \in DOMAIN s}

\* itertools.combinations(s, r) for r = 1, 2, 3: the r-element sublists of
\* s, in lexicographic order of their positions
combinations1(s) == [i \in DOMAIN s |-> <<s[i]>>]

RECURSIVE combinations2(_)
combinations2(s) ==
    IF Len(s) < 2 THEN <<>>
    ELSE [i \in 1..(Len(s) - 1) |-> <<Head(s)>> \o combinations1(Tail(s))[i]]
         \o combinations2(Tail(s))

RECURSIVE combinations3(_)
combinations3(s) ==
    IF Len(s) < 3 THEN <<>>
    ELSE [i \in DOMAIN combinations2(Tail(s)) |-> <<Head(s)>> \o combinations2(Tail(s))[i]]
         \o combinations3(Tail(s))

----------------------------------------------------------------------------
(* game.py: Game, the legal-action generator *)

get_current_player == players[current_player_index]

\* _get_different_gems_actions that counts Gold among the colors to take
_get_different_gems_actions_with_gold ==
    LET available_colors == SelectSeq(GemOrder \o <<GOLD>>, LAMBDA color : board.gems[color] > 0)
    IN  IF Len(available_colors) <= 3
        THEN <<TakeDifferent(available_colors)>>
        ELSE LET combos == combinations3(available_colors)
             IN  [i \in DOMAIN combos |-> TakeDifferent(combos[i])]

_get_different_gems_actions ==
    LET available_colors == SelectSeq(GemOrder, LAMBDA color : board.gems[color] > 0)
    IN  IF Len(available_colors) <= 3
        THEN <<TakeDifferent(available_colors)>>
        ELSE LET combos == combinations3(available_colors)
             IN  [i \in DOMAIN combos |-> TakeDifferent(combos[i])]

\* _get_same_gems_actions with the test "count >= 3": a color is offered
\* although taking two would leave the pool a single token
_get_same_gems_actions_from_3 ==
    LET colors == SelectSeq(GemOrder, LAMBDA color : board.gems[color] >= 3)
    IN  [i \in DOMAIN colors |-> TakeSame(colors[i])]

_get_same_gems_actions ==
    LET colors == SelectSeq(GemOrder, LAMBDA color : board.gems[color] >= 4)
    IN  [i \in DOMAIN colors |-> TakeSame(colors[i])]

\* _get_reserve_card_actions with the test "> 3": a player holding three
\* reserved cards is still offered a reserve
_get_reserve_card_actions_above_3(player) ==
    IF Len(player.reserved_cards) > 3
    THEN <<>>
    ELSE LET shown(level) == [i \in DOMAIN board.displayed_cards[level] |->
                                 Reserve(level, board.displayed_cards[level][i].card_id)]
             top(level) == IF board.card_decks[level] # <<>>
                           THEN <<ReserveDeck(level)>>
                           ELSE <<>>
         IN  shown(1) \o shown(2) \o shown(3) \o top(1) \o top(2) \o top(3)

_get_reserve_card_actions(player) ==
    IF Len(player.reserved_cards) >= 3
    THEN <<>>
    ELSE LET shown(level) == [i \in DOMAIN board.displayed_cards[level] |->
                                 Reserve(level, board.displayed_cards[level][i].card_id)]
             top(level) == IF board.card_decks[level] # <<>>
                           THEN <<ReserveDeck(level)>>
                           ELSE <<>>
         IN  shown(1) \o shown(2) \o shown(3) \o top(1) \o top(2) \o top(3)

_get_buy_card_actions(player) ==
    LET shown(level) ==
            LET cards == SelectSeq(board.displayed_cards[level],
                                LAMBDA card : can_afford_card(player, card))
            IN  [i \in DOMAIN cards |-> Buy(level, cards[i].card_id)]
    IN  shown(1) \o shown(2) \o shown(3)

\* _get_buy_reserved_card_actions over the reserved cards of every seat
\* that the player can afford
_get_buy_reserved_card_actions_any_seat(player) ==
    LET reserved(seat) == SelectSeq(players[seat].reserved_cards,
                                    LAMBDA card : can_afford_card(player, card))
        cards == reserved(0) \o reserved(1)
    IN  [i \in DOMAIN cards |-> BuyReserved(cards[i].card_id)]

_get_buy_reserved_card_actions(player) ==
    LET cards == SelectSeq(player.reserved_cards,
                        LAMBDA card : can_afford_card(player, card))
    IN  [i \in DOMAIN cards |-> BuyReserved(cards[i].card_id)]

get_valid_actions ==
    _get_different_gems_actions
    \o _get_same_gems_actions
    \o _get_reserve_card_actions(get_current_player)
    \o _get_buy_card_actions(get_current_player)
    \o _get_buy_reserved_card_actions(get_current_player)

----------------------------------------------------------------------------
(* game.py: Game, the post-effects of an action *)

\* _check_and_discard_gems that does not return the discarded tokens to
\* the pool
RECURSIVE _check_and_discard_gems_lost(_, _, _)
_check_and_discard_gems_lost(player_gems, board_gems, picks) ==
    IF get_total_gems([gems |-> player_gems]) > 10
       /\ (\E color \in GemColor : player_gems[color] > 0)
    THEN _check_and_discard_gems_lost([player_gems EXCEPT ![Head(picks)] = @ - 1],
                                      board_gems,
                                      Tail(picks))
    ELSE [player_gems |-> player_gems, board_gems |-> board_gems]

\* _check_and_discard_gems with the loop test "total_gems > 11"
RECURSIVE _check_and_discard_gems_above_11(_, _, _)
_check_and_discard_gems_above_11(player_gems, board_gems, picks) ==
    IF get_total_gems([gems |-> player_gems]) > 11
       /\ (\E color \in GemColor : player_gems[color] > 0)
    THEN _check_and_discard_gems_above_11([player_gems EXCEPT ![Head(picks)] = @ - 1],
                                          [board_gems EXCEPT ![Head(picks)] = @ + 1],
                                          Tail(picks))
    ELSE [player_gems |-> player_gems, board_gems |-> board_gems]

\* _check_and_discard_gems: while the player holds more than 10 tokens,
\* random.choice picks a held color and one token of it goes back to the
\* pool.  picks is the list of the colors random.choice returns, in order.
RECURSIVE _check_and_discard_gems(_, _, _)
_check_and_discard_gems(player_gems, board_gems, picks) ==
    IF get_total_gems([gems |-> player_gems]) > 10
       /\ (\E color \in GemColor : player_gems[color] > 0)
    THEN _check_and_discard_gems([player_gems EXCEPT ![Head(picks)] = @ - 1],
                                 [board_gems EXCEPT ![Head(picks)] = @ + 1],
                                 Tail(picks))
    ELSE [player_gems |-> player_gems, board_gems |-> board_gems]

\* the lists random.choice can return for a player holding player_gems: as
\* many picks as the loop runs, each of a color held when it is picked
DiscardPicks(player_gems) ==
    LET total_gems == get_total_gems([gems |-> player_gems])
        runs == IF total_gems > 10 THEN total_gems - 10 ELSE 0
    IN  {picks \in [1..runs -> GemColor] :
            \A color \in GemColor :
                Cardinality({i \in 1..runs : picks[i] = color}) <= player_gems[color]}

\* _check_nobles_visit that lets every qualifying noble visit
_check_nobles_visit_all(b, player) ==
    LET visiting_nobles ==
            SelectSeq(b.nobles, LAMBDA noble : can_be_visited_by_noble(player, noble))
    IN  [board |-> [b EXCEPT !.nobles =
                        SelectSeq(@, LAMBDA noble : ~can_be_visited_by_noble(player, noble))],
         player |-> [player EXCEPT !.nobles = @ \o visiting_nobles]]

\* _check_nobles_visit: the first noble of the board the player qualifies
\* for leaves the board and joins the player
_check_nobles_visit(b, player) ==
    LET visiting_nobles ==
            SelectSeq(b.nobles, LAMBDA noble : can_be_visited_by_noble(player, noble))
    IN  IF visiting_nobles # <<>>
        THEN [board |-> remove_noble(b, visiting_nobles[1].noble_id),
              player |-> [player EXCEPT !.nobles = Append(@, visiting_nobles[1])]]
        ELSE [board |-> b, player |-> player]

\* float('inf')
inf == 1000000

\* WinnerStep keeping the larger card count on a tie of the score
WinnerStep_most_cards(acc, ps, seat) ==
    LET score == get_score(ps[seat])
    IN  IF score > acc.max_score
        THEN [max_score |-> score,
              potential_winners |-> <<seat>>,
              min_cards |-> Len(ps[seat].cards)]
        ELSE IF score = acc.max_score
        THEN [max_score |-> acc.max_score,
              potential_winners |-> Append(acc.potential_winners, seat),
              min_cards |-> Max(acc.min_cards, Len(ps[seat].cards))]
        ELSE acc

\* one pass of the first loop of _determine_winner, over the player at seat
WinnerStep(acc, ps, seat) ==
    LET score == get_score(ps[seat])
    IN  IF score > acc.max_score
        THEN [max_score |-> score,
              potential_winners |-> <<seat>>,
              min_cards |-> Len(ps[seat].cards)]
        ELSE IF score = acc.max_score
        THEN [max_score |-> acc.max_score,
              potential_winners |-> Append(acc.potential_winners, seat),
              min_cards |-> Min(acc.min_cards, Len(ps[seat].cards))]
        ELSE acc

RECURSIVE WinnerScan(_, _, _)
WinnerScan(acc, ps, seat) ==
    IF seat >= num_players THEN acc
    ELSE WinnerScan(WinnerStep(acc, ps, seat), ps, seat + 1)

\* _determine_winner that names every player a winner
_determine_winner_all(ps) ==
    [i \in 1..num_players |-> i - 1]

\* _determine_winner: the list assigned to self.winner
_determine_winner(ps) ==
    LET acc == WinnerScan([max_score |-> -1, potential_winners |-> <<>>, min_cards |-> inf],
                          ps, 0)
    IN  SelectSeq(acc.potential_winners,
                  LAMBDA seat : /\ get_score(ps[seat]) = acc.max_score
                                /\ Len(ps[seat].cards) = acc.min_cards)

\* _check_game_end that ends the game on the seat that triggered the last
\* round instead of the seat before it
_check_game_end_at_trigger(ps) ==
    LET trigger == ~last_round /\ \E seat \in 0..(num_players - 1) : get_score(ps[seat]) >= 15
        last_round_1 == last_round \/ trigger
        last_player_index_1 == IF trigger THEN current_player_index ELSE last_player_index
        over == /\ last_round_1
                /\ current_player_index = last_player_index_1
    IN  [last_round |-> last_round_1,
         last_player_index |-> last_player_index_1,
         game_over |-> IF over THEN TRUE ELSE game_over,
         winner |-> IF over THEN _determine_winner(ps) ELSE winner]

\* _check_game_end without the test "not self.last_round": every purchase
\* made while a score is 15 or more records its seat as the trigger
_check_game_end_retrigger(ps) ==
    LET trigger == \E seat \in 0..(num_players - 1) : get_score(ps[seat]) >= 15
        last_round_1 == last_round \/ trigger
        last_player_index_1 == IF trigger THEN current_player_index ELSE last_player_index
        over == /\ last_round_1
                /\ (current_player_index + 1) % num_players = last_player_index_1
    IN  [last_round |-> last_round_1,
         last_player_index |-> last_player_index_1,
         game_over |-> IF over THEN TRUE ELSE game_over,
         winner |-> IF over THEN _determine_winner(ps) ELSE winner]

\* _check_game_end on the players as the purchase left them: the flags
\* after the call
_check_game_end(ps) ==
    LET trigger == ~last_round /\ \E seat \in 0..(num_players - 1) : get_score(ps[seat]) >= 15
        last_round_1 == last_round \/ trigger
        last_player_index_1 == IF trigger THEN current_player_index ELSE last_player_index
        over == /\ last_round_1
                /\ (current_player_index + 1) % num_players = last_player_index_1
    IN  [last_round |-> last_round_1,
         last_player_index |-> last_player_index_1,
         game_over |-> IF over THEN TRUE ELSE game_over,
         winner |-> IF over THEN _determine_winner(ps) ELSE winner]

----------------------------------------------------------------------------
(* game.py: Game.execute_action and its handlers.  p is the seat of the    *)
(* current player.                                                         *)

\* what the call did: the action it was given, the value it returned and the
\* colors its forced discard gave back to the pool
Returns(action, ret, discards) ==
    call' = [op |-> "execute_action", action |-> action, ret |-> ret,
             discards |-> discards]

\* a handler's "return False"
Fails(action) ==
    /\ Returns(action, "False", <<>>)
    /\ UNCHANGED <<board, players, game_over, winner, last_round, last_player_index>>

_execute_take_different_gems(p, action) ==
    LET colors == action.colors
        gems_to_take == [color \in Range(colors) |-> 1]
        taken == take_gems(board.gems, gems_to_take)
        got == [color \in GemColor |->
                   IF color \in DOMAIN gems_to_take
                   THEN players[p].gems[color] + gems_to_take[color]
                   ELSE players[p].gems[color]]
    IN  IF colors = <<>> \/ Len(colors) > 3
        THEN Fails(action)
        ELSE IF \E i \in DOMAIN colors : board.gems[colors[i]] <= 0
        THEN Fails(action)
        ELSE IF ~taken.ok
        THEN Fails(action)
        ELSE \E picks \in DiscardPicks(got) :
                 LET out == _check_and_discard_gems(got, taken.gems, picks)
                 IN
                 /\ board' = [board EXCEPT !.gems = out.board_gems]
                 /\ players' = [players EXCEPT ![p].gems = out.player_gems]
                 /\ UNCHANGED <<game_over, winner, last_round, last_player_index>>
                 /\ Returns(action, "True", picks)

_execute_take_same_gems(p, action) ==
    LET color == action.color
    IN  IF color = NoColor
        THEN Fails(action)
        ELSE IF board.gems[color] < 4
        THEN Fails(action)
        ELSE LET taken == take_gems(board.gems, (color :> 2))
                 got == [players[p].gems EXCEPT ![color] = @ + 2]
             IN  IF ~taken.ok
                 THEN Fails(action)
                 ELSE \E picks \in DiscardPicks(got) :
                          LET out == _check_and_discard_gems(got, taken.gems, picks)
                          IN
                          /\ board' = [board EXCEPT !.gems = out.board_gems]
                          /\ players' = [players EXCEPT ![p].gems = out.player_gems]
                          /\ UNCHANGED <<game_over, winner, last_round, last_player_index>>
                          /\ Returns(action, "True", picks)

\* lines 303-314 of _execute_reserve_card: the card the action names (the
\* top of the deck, or the displayed card with the id) and the board with
\* that card popped
ReserveLookup(action) ==
    LET level == action.level
        deck == IF level \in Levels THEN board.card_decks[level] ELSE <<>>
        displayed == IF level \in Levels THEN board.displayed_cards[level] ELSE <<>>
        i == FindCard(displayed, action.card_id)
    IN  IF action.from_deck
        THEN IF deck # <<>>
             THEN [found |-> TRUE, card |-> deck[Len(deck)],
                   popped |-> [board EXCEPT !.card_decks[level] = SubSeq(@, 1, Len(@) - 1)]]
             ELSE [found |-> FALSE]
        ELSE IF i # 0
             THEN [found |-> TRUE, card |-> displayed[i],
                   popped |-> [board EXCEPT !.displayed_cards[level] = PopAt(@, i)]]
             ELSE [found |-> FALSE]

\* lines 319-333 of _execute_reserve_card without the grant of a Gold
ReserveFound_no_gold(p, action, card, refilled) ==
    /\ board' = refilled
    /\ players' = [players EXCEPT ![p].reserved_cards = Append(@, card)]
    /\ UNCHANGED <<game_over, winner, last_round, last_player_index>>
    /\ Returns(action, "True", <<>>)

\* lines 319-333 of _execute_reserve_card: the card joins the reserved
\* list, the display is refilled and a Gold of the pool, if any, is granted
ReserveFound(p, action, card, refilled) ==
    IF refilled.gems[GOLD] > 0
    THEN \E picks \in DiscardPicks([players[p].gems EXCEPT ![GOLD] = @ + 1]) :
             LET out == _check_and_discard_gems(
                            [players[p].gems EXCEPT ![GOLD] = @ + 1],
                            [refilled.gems EXCEPT ![GOLD] = @ - 1], picks)
             IN
             /\ board' = [refilled EXCEPT !.gems = out.board_gems]
             /\ players' = [players EXCEPT
                               ![p].reserved_cards = Append(@, card),
                               ![p].gems = out.player_gems]
             /\ UNCHANGED <<game_over, winner, last_round, last_player_index>>
             /\ Returns(action, "True", picks)
    ELSE /\ board' = refilled
         /\ players' = [players EXCEPT ![p].reserved_cards = Append(@, card)]
         /\ UNCHANGED <<game_over, winner, last_round, last_player_index>>
         /\ Returns(action, "True", <<>>)

\* _execute_reserve_card with the limit of 3 tested only after the card
\* has been popped
_execute_reserve_card_late_limit(p, action) ==
    IF ~ReserveLookup(action).found
    THEN Fails(action)
    ELSE IF Len(players[p].reserved_cards) >= 3
    THEN /\ board' = ReserveLookup(action).popped
         /\ UNCHANGED <<players, game_over, winner, last_round, last_player_index>>
         /\ Returns(action, "False", <<>>)
    ELSE ReserveFound(p, action, ReserveLookup(action).card,
                      replenish_displayed_cards(ReserveLookup(action).popped))

_execute_reserve_card(p, action) ==
    IF Len(players[p].reserved_cards) >= 3
    THEN Fails(action)
    ELSE IF ~ReserveLookup(action).found
    THEN Fails(action)
    ELSE ReserveFound(p, action, ReserveLookup(action).card,
                      replenish_displayed_cards(ReserveLookup(action).popped))

\* the tail of the purchases with the payment taken from the player and
\* not put back into the pool
Purchase_uncredited(p, action, card, source_board, reserved) ==
    LET actual_cost == get_actual_cost(players[p], card)
        paid == [players[p] EXCEPT
                    !.gems = [color \in GemColor |-> @[color] - actual_cost[color]],
                    !.reserved_cards = reserved,
                    !.cards = Append(@, card)]
        visit == _check_nobles_visit(source_board, paid)
        ps == [players EXCEPT ![p] = visit.player]
        end == _check_game_end(ps)
    IN  /\ board' = visit.board
        /\ players' = ps
        /\ last_round' = end.last_round
        /\ last_player_index' = end.last_player_index
        /\ game_over' = end.game_over
        /\ winner' = end.winner
        /\ Returns(action, "True", <<>>)

\* the tail of the purchases with the card put at the head of the owned
\* list
Purchase_prepend(p, action, card, source_board, reserved) ==
    LET actual_cost == get_actual_cost(players[p], card)
        paid == [players[p] EXCEPT
                    !.gems = [color \in GemColor |-> @[color] - actual_cost[color]],
                    !.reserved_cards = reserved,
                    !.cards = <<card>> \o @]
        credited == [source_board EXCEPT
                        !.gems = [color \in GemColor |-> @[color] + actual_cost[color]]]
        visit == _check_nobles_visit(credited, paid)
        ps == [players EXCEPT ![p] = visit.player]
        end == _check_game_end(ps)
    IN  /\ board' = visit.board
        /\ players' = ps
        /\ last_round' = end.last_round
        /\ last_player_index' = end.last_player_index
        /\ game_over' = end.game_over
        /\ winner' = end.winner
        /\ Returns(action, "True", <<>>)

\* the tail shared by the two purchases: pay actual_cost, take the card,
\* then _check_nobles_visit and _check_game_end
Purchase(p, action, card, source_board, reserved) ==
    LET actual_cost == get_actual_cost(players[p], card)
        paid == [players[p] EXCEPT
                    !.gems = [color \in GemColor |-> @[color] - actual_cost[color]],
                    !.reserved_cards = reserved,
                    !.cards = Append(@, card)]
        credited == [source_board EXCEPT
                        !.gems = [color \in GemColor |-> @[color] + actual_cost[color]]]
        visit == _check_nobles_visit(credited, paid)
        ps == [players EXCEPT ![p] = visit.player]
        end == _check_game_end(ps)
    IN  /\ board' = visit.board
        /\ players' = ps
        /\ last_round' = end.last_round
        /\ last_player_index' = end.last_player_index
        /\ game_over' = end.game_over
        /\ winner' = end.winner
        /\ Returns(action, "True", <<>>)

_execute_buy_card(p, action) ==
    LET level == action.level
        card_id == action.card_id
        displayed == IF level \in Levels THEN board.displayed_cards[level] ELSE <<>>
        i == FindCard(displayed, card_id)
    IN  IF i = 0
        THEN Fails(action)
        ELSE IF ~can_afford_card(players[p], displayed[i])
        THEN Fails(action)
        ELSE Purchase(p, action, displayed[i],
                      remove_displayed_card(board, level, card_id),
                      players[p].reserved_cards)

_execute_buy_reserved_card(p, action) ==
    LET card_id == action.card_id
        card_index == FindCard(players[p].reserved_cards, card_id)
    IN  IF card_index = 0
        THEN Fails(action)
        ELSE IF ~can_afford_card(players[p], players[p].reserved_cards[card_index])
        THEN Fails(action)
        ELSE Purchase(p, action, players[p].reserved_cards[card_index], board,
                      PopAt(players[p].reserved_cards, card_index))

\* execute_action that records the action only when its handler succeeds
execute_action_records_success(action) ==
    /\ CASE action.action_type = TAKE_DIFFERENT_GEMS ->
                _execute_take_different_gems(current_player_index, action)
         [] action.action_type = TAKE_SAME_GEMS ->
                _execute_take_same_gems(current_player_index, action)
         [] action.action_type = RESERVE_CARD ->
                _execute_reserve_card(current_player_index, action)
         [] action.action_type = BUY_CARD ->
                _execute_buy_card(current_player_index, action)
         [] action.action_type = BUY_RESERVED_CARD ->
                _execute_buy_reserved_card(current_player_index, action)
         [] OTHER -> Fails(action)
    /\ history' = IF call'.ret = "True"
                  THEN Append(history, [round |-> round_number,
                                        player |-> current_player_index,
                                        action |-> action])
                  ELSE history
    /\ UNCHANGED <<num_players, current_player_index, round_number>>

\* Game.execute_action: the record goes to the history first, then the
\* handler of the action's type runs
execute_action(action) ==
    /\ history' = Append(history, [round |-> round_number,
                                   player |-> current_player_index,
                                   action |-> action])
    /\ CASE action.action_type = TAKE_DIFFERENT_GEMS ->
                _execute_take_different_gems(current_player_index, action)
         [] action.action_type = TAKE_SAME_GEMS ->
                _execute_take_same_gems(current_player_index, action)
         [] action.action_type = RESERVE_CARD ->
                _execute_reserve_card(current_player_index, action)
         [] action.action_type = BUY_CARD ->
                _execute_buy_card(current_player_index, action)
         [] action.action_type = BUY_RESERVED_CARD ->
                _execute_buy_reserved_card(current_player_index, action)
         [] OTHER -> Fails(action)
    /\ UNCHANGED <<num_players, current_player_index, round_number>>

\* next_player that counts a round at every call
next_player_round_each ==
    /\ current_player_index' = (current_player_index + 1) % num_players
    /\ round_number' = round_number + 1
    /\ UNCHANGED <<board, players, num_players, game_over, winner, last_round,
                   last_player_index, history>>

\* Game.next_player
next_player ==
    /\ current_player_index' = (current_player_index + 1) % num_players
    /\ round_number' = IF (current_player_index + 1) % num_players = 0
                       THEN round_number + 1
                       ELSE round_number
    /\ UNCHANGED <<board, players, num_players, game_over, winner, last_round,
                   last_player_index, history>>

----------------------------------------------------------------------------
(* Start positions.  Each is a state of a Game that play from a new game   *)
(* reaches under the loop of run_game; its history is the list of the      *)
(* actions that led to it.                                                 *)

\* self.winner = None
None == <<-1>>

\* self.last_player_index before _check_game_end first assigns it
Absent == -1

NoAction == Action("None", <<>>, NoColor, NoLevel, NoCard, FALSE)

Gems(w, b, g, r, k, gold) == Cost(w, b, g, r, k) @@ (GOLD :> gold)

\* the list of players, indexed by seat 0..n-1
Seats(list) == [seat \in 0..(Len(list) - 1) |-> list[seat + 1]]

\* the Card objects with these ids, in this order
Cards(card_ids) == [i \in DOMAIN card_ids |-> CardOf(card_ids[i])]

\* the Noble objects with these ids, in this order
Nobles(noble_ids) == [i \in DOMAIN noble_ids |-> NobleOf(noble_ids[i])]

\* one record of the history
Record(round, player, action) == [round |-> round, player |-> player, action |-> action]

\* Game(players) for two players
NewGame2 ==
    [num_players |-> 2,
     board |-> [gems |-> Gems(4, 4, 4, 4, 4, 5),
               card_decks |-> <<Cards(<<"L1_G3", "L1_K3", "L1_K1", "L1_R3", "L1_W1", "L1_K2", "L1_G4", "L1_W3", "L1_W4", "L1_G2", "L1_B2", "L1_B4", "L1_B1", "L1_K4", "L1_B3", "L1_R4">>),
                                Cards(<<"L2_W1", "L2_R1", "L2_K3", "L2_G3", "L2_G1", "L2_B1", "L2_W3", "L2_K1", "L2_G2", "L2_B3", "L2_R2">>),
                                Cards(<<"L3_B2", "L3_W2", "L3_B1", "L3_G2", "L3_R1", "L3_K2">>)>>,
               displayed_cards |-> <<Cards(<<"L1_R1", "L1_R2", "L1_W2", "L1_G1">>),
                                     Cards(<<"L2_B2", "L2_W2", "L2_R3", "L2_K2">>),
                                     Cards(<<"L3_R2", "L3_K1", "L3_G1", "L3_W1">>)>>,
               nobles |-> Nobles(<<"N7", "N5", "N4">>)],
     players |-> Seats(<<
         [gems |-> Gems(0, 0, 0, 0, 0, 0), cards |-> Cards(<<>>),
          reserved_cards |-> Cards(<<>>), nobles |-> Nobles(<<>>)],
         [gems |-> Gems(0, 0, 0, 0, 0, 0), cards |-> Cards(<<>>),
          reserved_cards |-> Cards(<<>>), nobles |-> Nobles(<<>>)]>>),
     current_player_index |-> 0,
     round_number |-> 1,
     game_over |-> FALSE,
     winner |-> None,
     last_round |-> FALSE,
     last_player_index |-> Absent,
     history |-> <<>>]

\* Game(players) for three players
NewGame3 ==
    [num_players |-> 3,
     board |-> [gems |-> Gems(5, 5, 5, 5, 5, 5),
               card_decks |-> <<Cards(<<"L1_G3", "L1_K3", "L1_K1", "L1_R3", "L1_W1", "L1_K2", "L1_G4", "L1_W3", "L1_W4", "L1_G2", "L1_B2", "L1_B4", "L1_B1", "L1_K4", "L1_B3", "L1_R4">>),
                                Cards(<<"L2_W1", "L2_R1", "L2_K3", "L2_G3", "L2_G1", "L2_B1", "L2_W3", "L2_K1", "L2_G2", "L2_B3", "L2_R2">>),
                                Cards(<<"L3_B2", "L3_W2", "L3_B1", "L3_G2", "L3_R1", "L3_K2">>)>>,
               displayed_cards |-> <<Cards(<<"L1_R1", "L1_R2", "L1_W2", "L1_G1">>),
                                     Cards(<<"L2_B2", "L2_W2", "L2_R3", "L2_K2">>),
                                     Cards(<<"L3_R2", "L3_K1", "L3_G1", "L3_W1">>)>>,
               nobles |-> Nobles(<<"N7", "N5", "N4", "N10">>)],
     players |-> Seats(<<
         [gems |-> Gems(0, 0, 0, 0, 0, 0), cards |-> Cards(<<>>),
          reserved_cards |-> Cards(<<>>), nobles |-> Nobles(<<>>)],
         [gems |-> Gems(0, 0, 0, 0, 0, 0), cards |-> Cards(<<>>),
          reserved_cards |-> Cards(<<>>), nobles |-> Nobles(<<>>)],
         [gems |-> Gems(0, 0, 0, 0, 0, 0), cards |-> Cards(<<>>),
          reserved_cards |-> Cards(<<>>), nobles |-> Nobles(<<>>)]>>),
     current_player_index |-> 0,
     round_number |-> 1,
     game_over |-> FALSE,
     winner |-> None,
     last_round |-> FALSE,
     last_player_index |-> Absent,
     history |-> <<>>]

\* four players, early: the pool holds no Gold
GoldGone4 ==
    [num_players |-> 4,
     board |-> [gems |-> Gems(6, 5, 4, 6, 3, 0),
               card_decks |-> <<Cards(<<"L1_K2", "L1_K4", "L1_G3", "L1_R3", "L1_B2", "L1_K3", "L1_K1", "L1_G4", "L1_B1", "L1_G1", "L1_B3", "L1_W1", "L1_R2">>),
                                Cards(<<"L2_G2", "L2_G1", "L2_R2", "L2_G3", "L2_B3", "L2_W3", "L2_K3", "L2_R3", "L2_R1", "L2_K1", "L2_W1">>),
                                Cards(<<"L3_G1", "L3_G2", "L3_W1", "L3_B1">>)>>,
               displayed_cards |-> <<Cards(<<"L1_G2", "L1_W4", "L1_R4", "L1_W3">>),
                                     Cards(<<"L2_K2", "L2_W2", "L2_B2", "L2_B1">>),
                                     Cards(<<"L3_K1", "L3_B2", "L3_K2", "L3_R2">>)>>,
               nobles |-> Nobles(<<"N10", "N3", "N6", "N4", "N2">>)],
     players |-> Seats(<<
         [gems |-> Gems(0, 0, 0, 0, 0, 3), cards |-> Cards(<<>>),
          reserved_cards |-> Cards(<<"L1_R1", "L3_R1", "L1_W2">>), nobles |-> Nobles(<<>>)],
         [gems |-> Gems(1, 1, 1, 0, 0, 1), cards |-> Cards(<<>>),
          reserved_cards |-> Cards(<<"L3_W2">>), nobles |-> Nobles(<<>>)],
         [gems |-> Gems(0, 1, 1, 0, 3, 0), cards |-> Cards(<<>>),
          reserved_cards |-> Cards(<<>>), nobles |-> Nobles(<<>>)],
         [gems |-> Gems(0, 0, 1, 1, 1, 1), cards |-> Cards(<<>>),
          reserved_cards |-> Cards(<<"L1_B4">>), nobles |-> Nobles(<<>>)]>>),
     current_player_index |-> 1,
     round_number |-> 3,
     game_over |-> FALSE,
     winner |-> None,
     last_round |-> FALSE,
     last_player_index |-> Absent,
     history |-> <<
         Record(1, 0, Reserve(1, "L1_R1")),
         Record(1, 1, Reserve(3, "L3_W2")),
         Record(1, 2, TakeDifferent(<<BLUE, GREEN, BLACK>>)),
         Record(1, 3, Reserve(1, "L1_B4")),
         Record(2, 0, Reserve(3, "L3_R1")),
         Record(2, 1, TakeDifferent(<<WHITE, BLUE, GREEN>>)),
         Record(2, 2, TakeSame(BLACK)),
         Record(2, 3, TakeDifferent(<<GREEN, RED, BLACK>>)),
         Record(3, 0, ReserveDeck(1))>>]

\* two players: the player to move holds 10 tokens
TenGems2 ==
    [num_players |-> 2,
     board |-> [gems |-> Gems(2, 4, 1, 1, 2, 5),
               card_decks |-> <<Cards(<<>>),
                                Cards(<<"L2_W1", "L2_R1", "L2_K3", "L2_G3", "L2_G1", "L2_B1">>),
                                Cards(<<"L3_B2", "L3_W2", "L3_B1", "L3_G2", "L3_R1">>)>>,
               displayed_cards |-> <<Cards(<<"L1_K4">>),
                                     Cards(<<"L2_R3", "L2_R2", "L2_B3", "L2_W3">>),
                                     Cards(<<"L3_R2", "L3_K1", "L3_W1", "L3_K2">>)>>,
               nobles |-> Nobles(<<"N5", "N4">>)],
     players |-> Seats(<<
         [gems |-> Gems(0, 0, 0, 0, 0, 0), cards |-> Cards(<<"L1_G1", "L1_B3", "L2_W2", "L1_B2", "L1_W4", "L1_W3", "L1_R4", "L1_K2", "L1_K1", "L1_G4", "L1_G3", "L1_K3", "L2_G2">>),
          reserved_cards |-> Cards(<<"L3_G1", "L2_K1">>), nobles |-> Nobles(<<"N7">>)],
         [gems |-> Gems(2, 0, 3, 3, 2, 0), cards |-> Cards(<<"L1_W2", "L1_B1", "L1_R1", "L2_K2", "L1_G2", "L1_R2", "L2_B2", "L1_W1", "L1_R3", "L1_B4">>),
          reserved_cards |-> Cards(<<>>), nobles |-> Nobles(<<>>)]>>),
     current_player_index |-> 1,
     round_number |-> 24,
     game_over |-> FALSE,
     winner |-> None,
     last_round |-> FALSE,
     last_player_index |-> Absent,
     history |-> <<
         Record(1, 0, TakeSame(RED)),
         Record(1, 1, Reserve(1, "L1_R2")),
         Record(2, 0, TakeDifferent(<<WHITE, BLUE, BLACK>>)),
         Record(2, 1, TakeSame(GREEN)),
         Record(3, 0, Buy(1, "L1_G1")),
         Record(3, 1, TakeDifferent(<<GREEN, RED, BLACK>>)),
         Record(4, 0, Reserve(3, "L3_G1")),
         Record(4, 1, Buy(1, "L1_W2")),
         Record(5, 0, TakeSame(BLACK)),
         Record(5, 1, TakeDifferent(<<BLUE, RED, BLACK>>)),
         Record(6, 0, TakeDifferent(<<BLUE, RED, BLACK>>)),
         Record(6, 1, TakeDifferent(<<WHITE, BLUE, GREEN>>)),
         Record(7, 0, Buy(1, "L1_B3")),
         Record(7, 1, Buy(1, "L1_B1")),
         Record(8, 0, TakeDifferent(<<BLUE, GREEN, RED>>)),
         Record(8, 1, TakeDifferent(<<WHITE, GREEN, BLACK>>)),
         Record(9, 0, TakeDifferent(<<WHITE, GREEN, BLACK>>)),
         Record(9, 1, Buy(1, "L1_R1")),
         Record(10, 0, Buy(2, "L2_W2")),
         Record(10, 1, TakeDifferent(<<WHITE, RED, BLACK>>)),
         Record(11, 0, TakeDifferent(<<BLUE, GREEN, BLACK>>)),
         Record(11, 1, TakeDifferent(<<GREEN, RED, BLACK>>)),
         Record(12, 0, TakeDifferent(<<BLUE, RED, BLACK>>)),
         Record(12, 1, Buy(2, "L2_K2")),
         Record(13, 0, Buy(1, "L1_B2")),
         Record(13, 1, Buy(1, "L1_G2")),
         Record(14, 0, Buy(1, "L1_W4")),
         Record(14, 1, BuyReserved("L1_R2")),
         Record(15, 0, Buy(1, "L1_W3")),
         Record(15, 1, TakeDifferent(<<WHITE, RED, BLACK>>)),
         Record(16, 0, Buy(1, "L1_R4")),
         Record(16, 1, Buy(2, "L2_B2")),
         Record(17, 0, Buy(1, "L1_K2")),
         Record(17, 1, Buy(1, "L1_W1")),
         Record(18, 0, TakeSame(BLACK)),
         Record(18, 1, Buy(1, "L1_R3")),
         Record(19, 0, Buy(1, "L1_K1")),
         Record(19, 1, TakeSame(RED)),
         Record(20, 0, Buy(1, "L1_G4")),
         Record(20, 1, Buy(1, "L1_B4")),
         Record(21, 0, Buy(1, "L1_G3")),
         Record(21, 1, TakeDifferent(<<GREEN, RED, BLACK>>)),
         Record(22, 0, Buy(1, "L1_K3")),
         Record(22, 1, TakeDifferent(<<WHITE, GREEN, RED>>)),
         Record(23, 0, ReserveDeck(2)),
         Record(23, 1, TakeDifferent(<<WHITE, GREEN, BLACK>>)),
         Record(24, 0, Buy(2, "L2_G2"))>>]

\* two players: the player to move holds three reserved cards
ThreeReserved2 ==
    [num_players |-> 2,
     board |-> [gems |-> Gems(3, 3, 3, 0, 2, 4),
               card_decks |-> <<Cards(<<>>),
                                Cards(<<>>),
                                Cards(<<"L3_B2", "L3_W2", "L3_B1", "L3_G2", "L3_R1">>)>>,
               displayed_cards |-> <<Cards(<<>>),
                                     Cards(<<"L2_R3", "L2_K3", "L2_R1", "L2_W1">>),
                                     Cards(<<"L3_R2", "L3_K1", "L3_W1", "L3_K2">>)>>,
               nobles |-> Nobles(<<"N5", "N4">>)],
     players |-> Seats(<<
         [gems |-> Gems(1, 1, 1, 0, 0, 1), cards |-> Cards(<<"L1_G1", "L1_B3", "L2_W2", "L1_B2", "L1_W4", "L1_W3", "L1_R4", "L1_K2", "L1_K1", "L1_G4", "L1_G3", "L1_K3", "L2_G2", "L2_R2", "L2_G1">>),
          reserved_cards |-> Cards(<<"L3_G1", "L2_K1", "L2_W3">>), nobles |-> Nobles(<<"N7">>)],
         [gems |-> Gems(0, 0, 0, 4, 2, 0), cards |-> Cards(<<"L1_W2", "L1_B1", "L1_R1", "L2_K2", "L1_G2", "L1_R2", "L2_B2", "L1_W1", "L1_R3", "L1_B4", "L1_K4", "L2_B3", "L2_B1", "L2_G3">>),
          reserved_cards |-> Cards(<<>>), nobles |-> Nobles(<<>>)]>>),
     current_player_index |-> 0,
     round_number |-> 29,
     game_over |-> FALSE,
     winner |-> None,
     last_round |-> FALSE,
     last_player_index |-> Absent,
     history |-> <<
         Record(1, 0, TakeSame(RED)),
         Record(1, 1, Reserve(1, "L1_R2")),
         Record(2, 0, TakeDifferent(<<WHITE, BLUE, BLACK>>)),
         Record(2, 1, TakeSame(GREEN)),
         Record(3, 0, Buy(1, "L1_G1")),
         Record(3, 1, TakeDifferent(<<GREEN, RED, BLACK>>)),
         Record(4, 0, Reserve(3, "L3_G1")),
         Record(4, 1, Buy(1, "L1_W2")),
         Record(5, 0, TakeSame(BLACK)),
         Record(5, 1, TakeDifferent(<<BLUE, RED, BLACK>>)),
         Record(6, 0, TakeDifferent(<<BLUE, RED, BLACK>>)),
         Record(6, 1, TakeDifferent(<<WHITE, BLUE, GREEN>>)),
         Record(7, 0, Buy(1, "L1_B3")),
         Record(7, 1, Buy(1, "L1_B1")),
         Record(8, 0, TakeDifferent(<<BLUE, GREEN, RED>>)),
         Record(8, 1, TakeDifferent(<<WHITE, GREEN, BLACK>>)),
         Record(9, 0, TakeDifferent(<<WHITE, GREEN, BLACK>>)),
         Record(9, 1, Buy(1, "L1_R1")),
         Record(10, 0, Buy(2, "L2_W2")),
         Record(10, 1, TakeDifferent(<<WHITE, RED, BLACK>>)),
         Record(11, 0, TakeDifferent(<<BLUE, GREEN, BLACK>>)),
         Record(11, 1, TakeDifferent(<<GREEN, RED, BLACK>>)),
         Record(12, 0, TakeDifferent(<<BLUE, RED, BLACK>>)),
         Record(12, 1, Buy(2, "L2_K2")),
         Record(13, 0, Buy(1, "L1_B2")),
         Record(13, 1, Buy(1, "L1_G2")),
         Record(14, 0, Buy(1, "L1_W4")),
         Record(14, 1, BuyReserved("L1_R2")),
         Record(15, 0, Buy(1, "L1_W3")),
         Record(15, 1, TakeDifferent(<<WHITE, RED, BLACK>>)),
         Record(16, 0, Buy(1, "L1_R4")),
         Record(16, 1, Buy(2, "L2_B2")),
         Record(17, 0, Buy(1, "L1_K2")),
         Record(17, 1, Buy(1, "L1_W1")),
         Record(18, 0, TakeSame(BLACK)),
         Record(18, 1, Buy(1, "L1_R3")),
         Record(19, 0, Buy(1, "L1_K1")),
         Record(19, 1, TakeSame(RED)),
         Record(20, 0, Buy(1, "L1_G4")),
         Record(20, 1, Buy(1, "L1_B4")),
         Record(21, 0, Buy(1, "L1_G3")),
         Record(21, 1, TakeDifferent(<<GREEN, RED, BLACK>>)),
         Record(22, 0, Buy(1, "L1_K3")),
         Record(22, 1, TakeDifferent(<<WHITE, GREEN, RED>>)),
         Record(23, 0, ReserveDeck(2)),
         Record(23, 1, TakeDifferent(<<WHITE, GREEN, BLACK>>)),
         Record(24, 0, Buy(2, "L2_G2")),
         Record(24, 1, Buy(1, "L1_K4")),
         Record(25, 0, Buy(2, "L2_R2")),
         Record(25, 1, TakeDifferent(<<WHITE, GREEN, RED>>)),
         Record(26, 0, TakeDifferent(<<WHITE, BLUE, GREEN>>)),
         Record(26, 1, Buy(2, "L2_B3")),
         Record(27, 0, Buy(2, "L2_G1")),
         Record(27, 1, Buy(2, "L2_B1")),
         Record(28, 0, Reserve(2, "L2_W3")),
         Record(28, 1, Buy(2, "L2_G3"))>>]

\* two players: seat 0 is to move and can reach 15 points
Near15Seat0 ==
    [num_players |-> 2,
     board |-> [gems |-> Gems(4, 4, 4, 2, 3, 5),
               card_decks |-> <<Cards(<<>>),
                                Cards(<<>>),
                                Cards(<<"L3_G2", "L3_K1", "L3_B1">>)>>,
               displayed_cards |-> <<Cards(<<"L1_B1">>),
                                     Cards(<<"L2_G3", "L2_W3", "L2_R2", "L2_B3">>),
                                     Cards(<<"L3_W2", "L3_B2", "L3_W1", "L3_K2">>)>>,
               nobles |-> Nobles(<<"N5">>)],
     players |-> Seats(<<
         [gems |-> Gems(0, 0, 0, 1, 1, 0), cards |-> Cards(<<"L1_G1", "L1_W3", "L1_K4", "L2_K2", "L2_R3", "L1_B2", "L1_G3", "L1_B4", "L1_K2", "L1_R1", "L1_B3", "L1_G4", "L3_R2", "L2_K1">>),
          reserved_cards |-> Cards(<<"L3_G1", "L2_W2">>), nobles |-> Nobles(<<"N10">>)],
         [gems |-> Gems(0, 0, 0, 1, 0, 0), cards |-> Cards(<<"L1_W1", "L1_R4", "L2_B1", "L1_G2", "L1_K3", "L1_W2", "L2_B2", "L1_R2", "L1_R3", "L1_K1", "L2_G1", "L2_R1", "L2_W1", "L2_K3", "L2_G2">>),
          reserved_cards |-> Cards(<<"L3_R1", "L1_W4">>), nobles |-> Nobles(<<"N7">>)]>>),
     current_player_index |-> 0,
     round_number |-> 28,
     game_over |-> FALSE,
     winner |-> None,
     last_round |-> FALSE,
     last_player_index |-> Absent,
     history |-> <<
         Record(1, 0, TakeDifferent(<<BLUE, RED, BLACK>>)),
         Record(1, 1, TakeDifferent(<<WHITE, BLUE, RED>>)),
         Record(2, 0, TakeDifferent(<<WHITE, GREEN, RED>>)),
         Record(2, 1, TakeDifferent(<<WHITE, GREEN, RED>>)),
         Record(3, 0, Buy(1, "L1_G1")),
         Record(3, 1, ReserveDeck(1)),
         Record(4, 0, TakeDifferent(<<WHITE, GREEN, BLACK>>)),
         Record(4, 1, BuyReserved("L1_W1")),
         Record(5, 0, TakeSame(BLUE)),
         Record(5, 1, TakeDifferent(<<WHITE, BLUE, RED>>)),
         Record(6, 0, Buy(1, "L1_W3")),
         Record(6, 1, Buy(1, "L1_R4")),
         Record(7, 0, TakeDifferent(<<GREEN, RED, BLACK>>)),
         Record(7, 1, Reserve(2, "L2_R1")),
         Record(8, 0, Reserve(3, "L3_G1")),
         Record(8, 1, TakeDifferent(<<WHITE, GREEN, BLACK>>)),
         Record(9, 0, Buy(1, "L1_K4")),
         Record(9, 1, Buy(2, "L2_B1")),
         Record(10, 0, TakeDifferent(<<WHITE, GREEN, RED>>)),
         Record(10, 1, Reserve(3, "L3_R1")),
         Record(11, 0, Buy(2, "L2_K2")),
         Record(11, 1, Buy(1, "L1_G2")),
         Record(12, 0, TakeSame(GREEN)),
         Record(12, 1, TakeSame(RED)),
         Record(13, 0, TakeDifferent(<<WHITE, RED, BLACK>>)),
         Record(13, 1, TakeDifferent(<<BLUE, GREEN, BLACK>>)),
         Record(14, 0, TakeDifferent(<<GREEN, RED, BLACK>>)),
         Record(14, 1, Buy(1, "L1_K3")),
         Record(15, 0, Buy(2, "L2_R3")),
         Record(15, 1, TakeDifferent(<<WHITE, GREEN, BLACK>>)),
         Record(16, 0, Buy(1, "L1_B2")),
         Record(16, 1, Buy(1, "L1_W2")),
         Record(17, 0, Buy(1, "L1_G3")),
         Record(17, 1, Buy(2, "L2_B2")),
         Record(18, 0, TakeDifferent(<<WHITE, RED, BLACK>>)),
         Record(18, 1, Buy(1, "L1_R2")),
         Record(19, 0, Reserve(2, "L2_W2")),
         Record(19, 1, Buy(1, "L1_R3")),
         Record(20, 0, Buy(1, "L1_B4")),
         Record(20, 1, TakeSame(RED)),
         Record(21, 0, Buy(1, "L1_K2")),
         Record(21, 1, Buy(1, "L1_K1")),
         Record(22, 0, Buy(1, "L1_R1")),
         Record(22, 1, Reserve(1, "L1_W4")),
         Record(23, 0, Buy(1, "L1_B3")),
         Record(23, 1, Buy(2, "L2_G1")),
         Record(24, 0, Buy(1, "L1_G4")),
         Record(24, 1, BuyReserved("L2_R1")),
         Record(25, 0, TakeDifferent(<<GREEN, RED, BLACK>>)),
         Record(25, 1, Buy(2, "L2_W1")),
         Record(26, 0, Buy(3, "L3_R2")),
         Record(26, 1, Buy(2, "L2_K3")),
         Record(27, 0, Buy(2, "L2_K1")),
         Record(27, 1, Buy(2, "L2_G2"))>>]

\* two players: seat 1 is to move and can reach 15 points
Near15Seat1 ==
    [num_players |-> 2,
     board |-> [gems |-> Gems(2, 0, 1, 1, 4, 5),
               card_decks |-> <<Cards(<<>>),
                                Cards(<<>>),
                                Cards(<<"L3_R2", "L3_B1", "L3_G2">>)>>,
               displayed_cards |-> <<Cards(<<>>),
                                     Cards(<<"L2_K2">>),
                                     Cards(<<"L3_W2", "L3_R1", "L3_B2", "L3_K1">>)>>,
               nobles |-> Nobles(<<"N1", "N3">>)],
     players |-> Seats(<<
         [gems |-> Gems(0, 2, 2, 2, 0, 0), cards |-> Cards(<<"L1_B1", "L1_R1", "L1_W1", "L1_B3", "L1_W4", "L1_R4", "L2_B1", "L2_K1", "L1_R2", "L1_R3", "L2_K3", "L1_K2", "L2_B2", "L1_G4", "L2_G3", "L2_G1", "L2_R3">>),
          reserved_cards |-> Cards(<<"L3_W1", "L3_G1">>), nobles |-> Nobles(<<>>)],
         [gems |-> Gems(2, 2, 1, 1, 0, 0), cards |-> Cards(<<"L2_R1", "L1_B4", "L1_W3", "L1_G1", "L1_B2", "L1_K3", "L1_G3", "L1_W2", "L1_K1", "L2_W1", "L2_B3", "L2_W3", "L1_G2", "L2_W2", "L2_R2", "L1_K4", "L2_G2">>),
          reserved_cards |-> Cards(<<"L3_K2">>), nobles |-> Nobles(<<"N7">>)]>>),
     current_player_index |-> 1,
     round_number |-> 31,
     game_over |-> FALSE,
     winner |-> None,
     last_round |-> FALSE,
     last_player_index |-> Absent,
     history |-> <<
         Record(1, 0, TakeDifferent(<<WHITE, GREEN, RED>>)),
         Record(1, 1, TakeDifferent(<<WHITE, GREEN, RED>>)),
         Record(2, 0, Reserve(2, "L2_G1")),
         Record(2, 1, TakeDifferent(<<WHITE, GREEN, BLACK>>)),
         Record(3, 0, Buy(1, "L1_B1")),
         Record(3, 1, TakeDifferent(<<GREEN, RED, BLACK>>)),
         Record(4, 0, TakeDifferent(<<GREEN, RED, BLACK>>)),
         Record(4, 1, Buy(2, "L2_R1")),
         Record(5, 0, TakeDifferent(<<WHITE, BLUE, RED>>)),
         Record(5, 1, TakeDifferent(<<BLUE, GREEN, BLACK>>)),
         Record(6, 0, Buy(1, "L1_R1")),
         Record(6, 1, Reserve(3, "L3_K2")),
         Record(7, 0, TakeDifferent(<<WHITE, GREEN, BLACK>>)),
         Record(7, 1, Buy(1, "L1_B4")),
         Record(8, 0, Buy(1, "L1_W1")),
         Record(8, 1, TakeDifferent(<<WHITE, BLUE, RED>>)),
         Record(9, 0, TakeDifferent(<<BLUE, GREEN, BLACK>>)),
         Record(9, 1, Reserve(1, "L1_K3")),
         Record(10, 0, TakeDifferent(<<WHITE, GREEN, BLACK>>)),
         Record(10, 1, Buy(1, "L1_W3")),
         Record(11, 0, Buy(1, "L1_B3")),
         Record(11, 1, TakeSame(BLACK)),
         Record(12, 0, Buy(1, "L1_W4")),
         Record(12, 1, Buy(1, "L1_G1")),
         Record(13, 0, Buy(1, "L1_R4")),
         Record(13, 1, Buy(1, "L1_B2")),
         Record(14, 0, Buy(2, "L2_B1")),
         Record(14, 1, TakeDifferent(<<WHITE, BLUE, RED>>)),
         Record(15, 0, TakeDifferent(<<WHITE, BLUE, RED>>)),
         Record(15, 1, TakeDifferent(<<WHITE, GREEN, BLACK>>)),
         Record(16, 0, Buy(2, "L2_K1")),
         Record(16, 1, BuyReserved("L1_K3")),
         Record(17, 0, Reserve(3, "L3_W1")),
         Record(17, 1, Buy(1, "L1_G3")),
         Record(18, 0, Buy(1, "L1_R2")),
         Record(18, 1, Buy(1, "L1_W2")),
         Record(19, 0, Reserve(3, "L3_G1")),
         Record(19, 1, Buy(1, "L1_K1")),
         Record(20, 0, Buy(1, "L1_R3")),
         Record(20, 1, Buy(2, "L2_W1")),
         Record(21, 0, TakeDifferent(<<GREEN, RED, BLACK>>)),
         Record(21, 1, Buy(2, "L2_B3")),
         Record(22, 0, Buy(2, "L2_K3")),
         Record(22, 1, TakeDifferent(<<WHITE, BLUE, BLACK>>)),
         Record(23, 0, Buy(1, "L1_K2")),
         Record(23, 1, Buy(2, "L2_W3")),
         Record(24, 0, Buy(2, "L2_B2")),
         Record(24, 1, Buy(1, "L1_G2")),
         Record(25, 0, Buy(1, "L1_G4")),
         Record(25, 1, Buy(2, "L2_W2")),
         Record(26, 0, Buy(2, "L2_G3")),
         Record(26, 1, Buy(2, "L2_R2")),
         Record(27, 0, BuyReserved("L2_G1")),
         Record(27, 1, TakeDifferent(<<WHITE, BLUE, GREEN>>)),
         Record(28, 0, TakeDifferent(<<BLUE, GREEN, RED>>)),
         Record(28, 1, Buy(1, "L1_K4")),
         Record(29, 0, TakeDifferent(<<BLUE, GREEN, RED>>)),
         Record(29, 1, Buy(2, "L2_G2")),
         Record(30, 0, TakeSame(BLACK)),
         Record(30, 1, TakeDifferent(<<BLUE, GREEN, RED>>)),
         Record(31, 0, Buy(2, "L2_R3"))>>]

\* three players: seat 1 has just reached 15 points, seat 2 is to move
LastRound3 ==
    [num_players |-> 3,
     board |-> [gems |-> Gems(0, 1, 0, 1, 1, 5),
               card_decks |-> <<Cards(<<>>),
                                Cards(<<>>),
                                Cards(<<>>)>>,
               displayed_cards |-> <<Cards(<<>>),
                                     Cards(<<>>),
                                     Cards(<<"L3_K2", "L3_B1", "L3_R2">>)>>,
               nobles |-> Nobles(<<"N3", "N4", "N5", "N1">>)],
     players |-> Seats(<<
         [gems |-> Gems(3, 3, 3, 1, 0, 0), cards |-> Cards(<<"L2_W1", "L1_R1", "L1_W1", "L1_G2", "L1_B2", "L1_K3", "L1_R4", "L2_B2", "L2_K2", "L3_W1", "L2_G1", "L3_G1">>),
          reserved_cards |-> Cards(<<"L2_W3">>), nobles |-> Nobles(<<>>)],
         [gems |-> Gems(0, 0, 1, 1, 2, 0), cards |-> Cards(<<"L1_R2", "L1_W2", "L1_B4", "L1_B3", "L1_G1", "L1_K2", "L2_K1", "L1_W4", "L1_G4", "L1_K4", "L2_B3", "L2_G3", "L2_R3", "L2_B1", "L3_R1">>),
          reserved_cards |-> Cards(<<"L3_B2">>), nobles |-> Nobles(<<>>)],
         [gems |-> Gems(2, 1, 1, 2, 2, 0), cards |-> Cards(<<"L1_B1", "L2_R2", "L1_G3", "L1_W3", "L1_K1", "L1_R3", "L2_R1", "L3_W2", "L2_G2", "L2_W2", "L2_K3", "L3_K1">>),
          reserved_cards |-> Cards(<<"L3_G2">>), nobles |-> Nobles(<<>>)]>>),
     current_player_index |-> 2,
     round_number |-> 32,
     game_over |-> FALSE,
     winner |-> None,
     last_round |-> TRUE,
     last_player_index |-> 1,
     history |-> <<
         Record(1, 0, TakeSame(GREEN)),
         Record(1, 1, Reserve(1, "L1_R2")),
         Record(1, 2, TakeDifferent(<<GREEN, RED, BLACK>>)),
         Record(2, 0, TakeSame(BLUE)),
         Record(2, 1, TakeDifferent(<<WHITE, BLUE, GREEN>>)),
         Record(2, 2, TakeSame(BLACK)),
         Record(3, 0, TakeSame(RED)),
         Record(3, 1, TakeDifferent(<<BLUE, RED, BLACK>>)),
         Record(3, 2, Reserve(3, "L3_W2")),
         Record(4, 0, TakeDifferent(<<BLUE, GREEN, RED>>)),
         Record(4, 1, BuyReserved("L1_R2")),
         Record(4, 2, Buy(1, "L1_B1")),
         Record(5, 0, Buy(2, "L2_W1")),
         Record(5, 1, TakeDifferent(<<GREEN, RED, BLACK>>)),
         Record(5, 2, ReserveDeck(3)),
         Record(6, 0, TakeDifferent(<<BLUE, RED, BLACK>>)),
         Record(6, 1, TakeDifferent(<<BLUE, GREEN, RED>>)),
         Record(6, 2, TakeDifferent(<<WHITE, GREEN, BLACK>>)),
         Record(7, 0, Buy(1, "L1_R1")),
         Record(7, 1, Buy(1, "L1_W2")),
         Record(7, 2, TakeDifferent(<<BLUE, GREEN, BLACK>>)),
         Record(8, 0, TakeDifferent(<<BLUE, GREEN, BLACK>>)),
         Record(8, 1, Buy(1, "L1_B4")),
         Record(8, 2, Buy(2, "L2_R2")),
         Record(9, 0, Buy(1, "L1_W1")),
         Record(9, 1, TakeDifferent(<<BLUE, RED, BLACK>>)),
         Record(9, 2, TakeDifferent(<<WHITE, GREEN, BLACK>>)),
         Record(10, 0, TakeDifferent(<<WHITE, BLUE, GREEN>>)),
         Record(10, 1, Reserve(1, "L1_B3")),
         Record(10, 2, Buy(1, "L1_G3")),
         Record(11, 0, TakeSame(BLACK)),
         Record(11, 1, BuyReserved("L1_B3")),
         Record(11, 2, TakeDifferent(<<WHITE, BLUE, RED>>)),
         Record(12, 0, Buy(1, "L1_G2")),
         Record(12, 1, Reserve(2, "L2_B1")),
         Record(12, 2, TakeDifferent(<<WHITE, BLUE, BLACK>>)),
         Record(13, 0, TakeDifferent(<<BLUE, GREEN, BLACK>>)),
         Record(13, 1, Buy(1, "L1_G1")),
         Record(13, 2, Buy(1, "L1_W3")),
         Record(14, 0, Buy(1, "L1_B2")),
         Record(14, 1, TakeDifferent(<<WHITE, BLUE, RED>>)),
         Record(14, 2, Buy(1, "L1_K1")),
         Record(15, 0, Buy(1, "L1_K3")),
         Record(15, 1, Buy(1, "L1_K2")),
         Record(15, 2, Buy(1, "L1_R3")),
         Record(16, 0, TakeDifferent(<<WHITE, BLUE, BLACK>>)),
         Record(16, 1, TakeDifferent(<<GREEN, RED, BLACK>>)),
         Record(16, 2, TakeDifferent(<<BLUE, GREEN, RED>>)),
         Record(17, 0, Buy(1, "L1_R4")),
         Record(17, 1, Buy(2, "L2_K1")),
         Record(17, 2, TakeDifferent(<<GREEN, RED, BLACK>>)),
         Record(18, 0, TakeDifferent(<<GREEN, RED, BLACK>>)),
         Record(18, 1, Buy(1, "L1_W4")),
         Record(18, 2, Buy(2, "L2_R1")),
         Record(19, 0, Buy(2, "L2_B2")),
         Record(19, 1, TakeDifferent(<<WHITE, GREEN, BLACK>>)),
         Record(19, 2, TakeDifferent(<<WHITE, BLUE, GREEN>>)),
         Record(20, 0, Reserve(2, "L2_W3")),
         Record(20, 1, Buy(1, "L1_G4")),
         Record(20, 2, TakeDifferent(<<BLUE, RED, BLACK>>)),
         Record(21, 0, Buy(2, "L2_K2")),
         Record(21, 1, Buy(1, "L1_K4")),
         Record(21, 2, BuyReserved("L3_W2")),
         Record(22, 0, TakeSame(BLACK)),
         Record(22, 1, TakeDifferent(<<WHITE, GREEN, BLACK>>)),
         Record(22, 2, TakeDifferent(<<GREEN, RED, BLACK>>)),
         Record(23, 0, TakeDifferent(<<WHITE, GREEN, RED>>)),
         Record(23, 1, TakeDifferent(<<WHITE, RED>>)),
         Record(23, 2, Buy(2, "L2_G2")),
         Record(24, 0, TakeDifferent(<<WHITE, RED, BLACK>>)),
         Record(24, 1, Buy(2, "L2_B3")),
         Record(24, 2, ReserveDeck(2)),
         Record(25, 0, Buy(3, "L3_W1")),
         Record(25, 1, Reserve(2, "L2_R3")),
         Record(25, 2, BuyReserved("L2_W2")),
         Record(26, 0, Buy(2, "L2_G1")),
         Record(26, 1, Buy(2, "L2_G3")),
         Record(26, 2, TakeDifferent(<<WHITE, BLUE, RED>>)),
         Record(27, 0, TakeDifferent(<<WHITE, BLUE, GREEN>>)),
         Record(27, 1, TakeSame(BLACK)),
         Record(27, 2, Buy(2, "L2_K3")),
         Record(28, 0, TakeDifferent(<<WHITE, BLUE, BLACK>>)),
         Record(28, 1, BuyReserved("L2_R3")),
         Record(28, 2, TakeDifferent(<<GREEN, RED, BLACK>>)),
         Record(29, 0, Buy(3, "L3_G1")),
         Record(29, 1, BuyReserved("L2_B1")),
         Record(29, 2, TakeDifferent(<<WHITE, GREEN, BLACK>>)),
         Record(30, 0, TakeDifferent(<<WHITE, BLUE, RED>>)),
         Record(30, 1, TakeDifferent(<<BLUE, RED, BLACK>>)),
         Record(30, 2, Buy(3, "L3_K1")),
         Record(31, 0, TakeDifferent(<<GREEN, RED, BLACK>>)),
         Record(31, 1, Reserve(3, "L3_B2")),
         Record(31, 2, TakeDifferent(<<BLUE, GREEN, RED>>)),
         Record(32, 0, TakeDifferent(<<BLUE, GREEN>>)),
         Record(32, 1, Buy(3, "L3_R1"))>>]
\* two players: the player to move can buy a card that meets the
\* requirements of two nobles at once
TwoNobles2 ==
    [num_players |-> 2,
     board |-> [gems |-> Gems(3, 3, 3, 3, 2, 5),
               card_decks |-> <<Cards(<<>>),
                                Cards(<<"L2_R1", "L2_G2", "L2_B3", "L2_R3", "L2_W2", "L2_W1">>),
                                Cards(<<"L3_B1", "L3_B2", "L3_K1", "L3_G2", "L3_W1">>)>>,
               displayed_cards |-> <<Cards(<<"L1_W4">>),
                                     Cards(<<"L2_K3", "L2_W3", "L2_K1", "L2_R2">>),
                                     Cards(<<"L3_W2", "L3_K2", "L3_G1", "L3_R2">>)>>,
               nobles |-> Nobles(<<"N9", "N8", "N10">>)],
     players |-> Seats(<<
         [gems |-> Gems(0, 1, 1, 1, 0, 0), cards |-> Cards(<<"L1_W2", "L1_R1", "L1_R4", "L1_B1", "L1_K3", "L1_G2", "L1_B4", "L1_W3", "L2_G1", "L2_K2", "L2_B1">>),
          reserved_cards |-> Cards(<<"L3_R1">>), nobles |-> Nobles(<<>>)],
         [gems |-> Gems(1, 0, 0, 0, 2, 0), cards |-> Cards(<<"L1_G4", "L1_R2", "L1_W1", "L1_B3", "L1_K2", "L1_K1", "L1_G1", "L1_B2", "L1_R3", "L2_B2", "L1_G3", "L2_G3", "L1_K4">>),
          reserved_cards |-> Cards(<<>>), nobles |-> Nobles(<<>>)]>>),
     current_player_index |-> 1,
     round_number |-> 23,
     game_over |-> FALSE,
     winner |-> None,
     last_round |-> FALSE,
     last_player_index |-> Absent,
     history |-> <<
         Record(1, 0, TakeSame(GREEN)),
         Record(1, 1, TakeSame(BLACK)),
         Record(2, 0, TakeDifferent(<<WHITE, BLUE, GREEN>>)),
         Record(2, 1, TakeDifferent(<<BLUE, RED, BLACK>>)),
         Record(3, 0, TakeDifferent(<<WHITE, BLUE, GREEN>>)),
         Record(3, 1, TakeDifferent(<<WHITE, RED, BLACK>>)),
         Record(4, 0, TakeDifferent(<<WHITE, BLUE, RED>>)),
         Record(4, 1, Buy(1, "L1_G4")),
         Record(5, 0, TakeSame(BLACK)),
         Record(5, 1, TakeDifferent(<<WHITE, RED, BLACK>>)),
         Record(6, 0, Buy(1, "L1_W2")),
         Record(6, 1, Buy(1, "L1_R2")),
         Record(7, 0, TakeDifferent(<<WHITE, GREEN, RED>>)),
         Record(7, 1, TakeDifferent(<<WHITE, BLUE, BLACK>>)),
         Record(8, 0, Reserve(3, "L3_R1")),
         Record(8, 1, Buy(1, "L1_W1")),
         Record(9, 0, Buy(1, "L1_R1")),
         Record(9, 1, TakeSame(BLACK)),
         Record(10, 0, Buy(1, "L1_R4")),
         Record(10, 1, Buy(1, "L1_B3")),
         Record(11, 0, TakeDifferent(<<GREEN, RED, BLACK>>)),
         Record(11, 1, TakeDifferent(<<WHITE, BLUE, BLACK>>)),
         Record(12, 0, Buy(1, "L1_B1")),
         Record(12, 1, Buy(1, "L1_K2")),
         Record(13, 0, TakeDifferent(<<WHITE, BLUE, BLACK>>)),
         Record(13, 1, Buy(1, "L1_K1")),
         Record(14, 0, Buy(1, "L1_K3")),
         Record(14, 1, Buy(1, "L1_G1")),
         Record(15, 0, Buy(1, "L1_G2")),
         Record(15, 1, Buy(1, "L1_B2")),
         Record(16, 0, Buy(1, "L1_B4")),
         Record(16, 1, Buy(1, "L1_R3")),
         Record(17, 0, TakeDifferent(<<GREEN, RED, BLACK>>)),
         Record(17, 1, Buy(2, "L2_B2")),
         Record(18, 0, Buy(1, "L1_W3")),
         Record(18, 1, TakeDifferent(<<WHITE, BLUE, BLACK>>)),
         Record(19, 0, Buy(2, "L2_G1")),
         Record(19, 1, Buy(1, "L1_G3")),
         Record(20, 0, TakeDifferent(<<WHITE, BLUE, GREEN>>)),
         Record(20, 1, TakeDifferent(<<WHITE, BLUE, BLACK>>)),
         Record(21, 0, Buy(2, "L2_K2")),
         Record(21, 1, Buy(2, "L2_G3")),
         Record(22, 0, TakeSame(RED)),
         Record(22, 1, Buy(1, "L1_K4")),
         Record(23, 0, Buy(2, "L2_B1"))>>]

\* two players: the player to move holds 9 tokens and can take two of
\* one color
NineGems2 ==
    [num_players |-> 2,
     board |-> [gems |-> Gems(4, 2, 2, 0, 2, 5),
               card_decks |-> <<Cards(<<"L1_K3", "L1_K1", "L1_B3", "L1_K2", "L1_K4", "L1_R3">>),
                                Cards(<<"L2_W2", "L2_B3", "L2_G1", "L2_K1", "L2_K2", "L2_B2", "L2_B1", "L2_R1", "L2_K3", "L2_R3">>),
                                Cards(<<"L3_W2", "L3_K2", "L3_G1", "L3_K1">>)>>,
               displayed_cards |-> <<Cards(<<"L1_B4", "L1_W3", "L1_B1", "L1_G4">>),
                                     Cards(<<"L2_W3", "L2_R2", "L2_G2", "L2_G3">>),
                                     Cards(<<"L3_B2", "L3_R1", "L3_R2", "L3_W1">>)>>,
               nobles |-> Nobles(<<"N7", "N3", "N6">>)],
     players |-> Seats(<<
         [gems |-> Gems(0, 2, 2, 3, 2, 0), cards |-> Cards(<<"L1_G2", "L1_G3", "L1_R2">>),
          reserved_cards |-> Cards(<<"L3_B1", "L2_W1", "L3_G2">>), nobles |-> Nobles(<<>>)],
         [gems |-> Gems(0, 0, 0, 1, 0, 0), cards |-> Cards(<<"L1_W1", "L1_W2", "L1_R4", "L1_R1", "L1_G1", "L1_B2">>),
          reserved_cards |-> Cards(<<"L1_W4">>), nobles |-> Nobles(<<>>)]>>),
     current_player_index |-> 0,
     round_number |-> 14,
     game_over |-> FALSE,
     winner |-> None,
     last_round |-> FALSE,
     last_player_index |-> Absent,
     history |-> <<
         Record(1, 0, TakeSame(BLACK)),
         Record(1, 1, TakeDifferent(<<BLUE, GREEN, BLACK>>)),
         Record(2, 0, Reserve(3, "L3_B1")),
         Record(2, 1, TakeDifferent(<<WHITE, GREEN, RED>>)),
         Record(3, 0, TakeDifferent(<<BLUE, RED, BLACK>>)),
         Record(3, 1, Buy(1, "L1_W1")),
         Record(4, 0, Buy(1, "L1_G2")),
         Record(4, 1, TakeDifferent(<<BLUE, GREEN, RED>>)),
         Record(5, 0, TakeDifferent(<<WHITE, RED, BLACK>>)),
         Record(5, 1, TakeDifferent(<<WHITE, BLUE, BLACK>>)),
         Record(6, 0, TakeDifferent(<<BLUE, GREEN, BLACK>>)),
         Record(6, 1, Buy(1, "L1_W2")),
         Record(7, 0, Reserve(2, "L2_W1")),
         Record(7, 1, Buy(1, "L1_R4")),
         Record(8, 0, Buy(1, "L1_G3")),
         Record(8, 1, TakeDifferent(<<BLUE, GREEN, RED>>)),
         Record(9, 0, Reserve(3, "L3_G2")),
         Record(9, 1, Reserve(1, "L1_W4")),
         Record(10, 0, TakeDifferent(<<WHITE, BLUE, RED>>)),
         Record(10, 1, Buy(1, "L1_R1")),
         Record(11, 0, Buy(1, "L1_R2")),
         Record(11, 1, TakeSame(BLACK)),
         Record(12, 0, TakeDifferent(<<BLUE, GREEN, BLACK>>)),
         Record(12, 1, Buy(1, "L1_G1")),
         Record(13, 0, TakeDifferent(<<BLUE, RED, BLACK>>)),
         Record(13, 1, Buy(1, "L1_B2"))>>]

\* two players: the pool holds no token but Gold, the player to move
\* holds three reserved cards and can afford no card
NoMove2 ==
    [num_players |-> 2,
     board |-> [gems |-> Gems(0, 0, 0, 0, 0, 5),
               card_decks |-> <<Cards(<<"L1_K4", "L1_W4", "L1_R1", "L1_B1", "L1_B3", "L1_W3", "L1_W1", "L1_B2", "L1_W2", "L1_B4", "L1_G2", "L1_R3", "L1_G1", "L1_G4", "L1_R4", "L1_K2">>),
                                Cards(<<"L2_W2", "L2_B1", "L2_R2", "L2_G3", "L2_R1", "L2_K2", "L2_W3", "L2_R3", "L2_B2", "L2_B3", "L2_K1">>),
                                Cards(<<>>)>>,
               displayed_cards |-> <<Cards(<<"L1_K1", "L1_G3", "L1_R2", "L1_K3">>),
                                     Cards(<<"L2_W1", "L2_G2", "L2_G1", "L2_K3">>),
                                     Cards(<<"L3_W2", "L3_W1", "L3_B1", "L3_K2">>)>>,
               nobles |-> Nobles(<<"N5", "N10", "N9">>)],
     players |-> Seats(<<
         [gems |-> Gems(0, 2, 3, 2, 3, 0), cards |-> Cards(<<>>),
          reserved_cards |-> Cards(<<"L3_G2", "L3_B2", "L3_K1">>), nobles |-> Nobles(<<>>)],
         [gems |-> Gems(4, 2, 1, 2, 1, 0), cards |-> Cards(<<>>),
          reserved_cards |-> Cards(<<"L3_G1", "L3_R1", "L3_R2">>), nobles |-> Nobles(<<>>)]>>),
     current_player_index |-> 0,
     round_number |-> 8,
     game_over |-> FALSE,
     winner |-> None,
     last_round |-> FALSE,
     last_player_index |-> Absent,
     history |-> <<
         Record(1, 0, Reserve(3, "L3_G2")),
         Record(1, 1, Reserve(3, "L3_G1")),
         Record(2, 0, Reserve(3, "L3_B2")),
         Record(2, 1, Reserve(3, "L3_R1")),
         Record(3, 0, Reserve(3, "L3_K1")),
         Record(3, 1, Reserve(3, "L3_R2")),
         Record(4, 0, TakeDifferent(<<WHITE, RED, BLACK>>)),
         Record(4, 1, TakeDifferent(<<WHITE, BLUE, GREEN>>)),
         Record(5, 0, TakeDifferent(<<WHITE, GREEN, BLACK>>)),
         Record(5, 1, TakeDifferent(<<WHITE, BLUE, RED>>)),
         Record(6, 0, TakeDifferent(<<BLUE, GREEN, RED>>)),
         Record(6, 1, TakeDifferent(<<WHITE, RED, BLACK>>)),
         Record(7, 0, TakeDifferent(<<BLUE, GREEN, BLACK>>)),
         Record(7, 1, TakeDifferent(<<WHITE>>))>>]

\* two players, early: the player to move can buy a card for which two
\* colors are short, with one Gold for each
GoldForTwo2 ==
    [num_players |-> 2,
     board |-> [gems |-> Gems(2, 3, 2, 4, 3, 1),
               card_decks |-> <<Cards(<<"L1_G4", "L1_B2", "L1_K2", "L1_K4", "L1_G2", "L1_W1", "L1_K1", "L1_W2", "L1_R4", "L1_B3", "L1_G3", "L1_R2", "L1_R3", "L1_R1", "L1_B4">>),
                                Cards(<<"L2_W3", "L2_R2", "L2_G3", "L2_K1", "L2_K2", "L2_G1", "L2_W1", "L2_B3">>),
                                Cards(<<"L3_B1", "L3_K1", "L3_G1", "L3_W2", "L3_G2", "L3_R2">>)>>,
               displayed_cards |-> <<Cards(<<"L1_B1", "L1_K3", "L1_W3", "L1_G1">>),
                                     Cards(<<"L2_R3", "L2_G2", "L2_K3", "L2_W2">>),
                                     Cards(<<"L3_R1", "L3_W1", "L3_B2", "L3_K2">>)>>,
               nobles |-> Nobles(<<"N3", "N2", "N6">>)],
     players |-> Seats(<<
         [gems |-> Gems(1, 0, 1, 0, 1, 2), cards |-> Cards(<<>>),
          reserved_cards |-> Cards(<<"L1_W4", "L2_R1">>), nobles |-> Nobles(<<>>)],
         [gems |-> Gems(1, 1, 1, 0, 0, 2), cards |-> Cards(<<>>),
          reserved_cards |-> Cards(<<"L2_B1", "L2_B2">>), nobles |-> Nobles(<<>>)]>>),
     current_player_index |-> 0,
     round_number |-> 4,
     game_over |-> FALSE,
     winner |-> None,
     last_round |-> FALSE,
     last_player_index |-> Absent,
     history |-> <<
         Record(1, 0, TakeDifferent(<<WHITE, GREEN, BLACK>>)),
         Record(1, 1, ReserveDeck(2)),
         Record(2, 0, ReserveDeck(1)),
         Record(2, 1, Reserve(2, "L2_B2")),
         Record(3, 0, Reserve(2, "L2_R1")),
         Record(3, 1, TakeDifferent(<<WHITE, BLUE, GREEN>>))>>]

StartPositions ==
    {NewGame2, NewGame3, GoldGone4, TenGems2, ThreeReserved2, Near15Seat0,
     Near15Seat1, LastRound3, TwoNobles2, NineGems2, NoMove2, GoldForTwo2}

----------------------------------------------------------------------------
(* The driver: the loop of run_game and Evaluator._run_game.  While the    *)
(* game is not over it asks for the valid actions, executes the one the    *)
(* agent selects (if there is any valid action) and calls next_player.     *)

Init ==
    \E pos \in StartPositions :
        /\ board = pos.board
        /\ players = pos.players
        /\ num_players = pos.num_players
        /\ current_player_index = pos.current_player_index
        /\ round_number = pos.round_number
        /\ game_over = pos.game_over
        /\ winner = pos.winner
        /\ last_round = pos.last_round
        /\ last_player_index = pos.last_player_index
        /\ history = pos.history
        /\ call = [op |-> "Game", action |-> NoAction, ret |-> "None", discards |-> <<>>]
        /\ turn = 0

\* the loop is at its top: the last iteration has called next_player
AtLoopTop == call.op # "execute_action"

\* the loop body runs: the game is not over and there is a valid action
InTurn == AtLoopTop /\ ~game_over /\ turn < MaxTurns /\ get_valid_actions # <<>>

\* the agent's selection goes to execute_action
ExecuteAction(action) ==
    /\ execute_action(action)
    /\ UNCHANGED turn

\* the end of an iteration that calls next_player only after a success,
\* as play_round does
NextPlayer_on_success ==
    /\ IF AtLoopTop
       THEN ~game_over /\ turn < MaxTurns /\ get_valid_actions = <<>>
       ELSE TRUE
    /\ IF call.op = "execute_action" /\ call.ret = "False"
       THEN UNCHANGED <<board, players, num_players, current_player_index,
                        round_number, game_over, winner, last_round,
                        last_player_index, history>>
       ELSE next_player
    /\ call' = [op |-> "next_player", action |-> NoAction, ret |-> "None", discards |-> <<>>]
    /\ turn' = turn + 1

NextPlayer ==
    /\ IF AtLoopTop
       THEN ~game_over /\ turn < MaxTurns /\ get_valid_actions = <<>>
       ELSE TRUE
    /\ next_player
    /\ call' = [op |-> "next_player", action |-> NoAction, ret |-> "None", discards |-> <<>>]
    /\ turn' = turn + 1

\* the agent selects one of the valid actions
Next ==
    \/ /\ InTurn
       /\ \E action \in Range(get_valid_actions) : ExecuteAction(action)
    \/ NextPlayer

Spec == Init /\ [][Next]_vars

----------------------------------------------------------------------------
(* A caller of execute_action that is not bound to the valid actions: the  *)
(* same loop, with any well-formed Action as the selection.                *)

\* color lists a caller may pass besides the generated ones: empty, one
\* color (Gold included), two colors, a repeated color, four colors
OtherColorLists ==
    {<<>>, <<WHITE, BLUE>>, <<WHITE, WHITE>>, <<WHITE, BLUE, GREEN, RED>>}
    \cup {<<color>> : color \in GemColor}

\* the cards the caller can name: the displayed ones and the reserved ones
DisplayedIds(level) ==
    {board.displayed_cards[level][i].card_id : i \in DOMAIN board.displayed_cards[level]}

ReservedIds(seat) ==
    {players[seat].reserved_cards[i].card_id : i \in DOMAIN players[seat].reserved_cards}

AnyActions ==
    Range(get_valid_actions)
    \cup {TakeDifferent(colors) : colors \in OtherColorLists}
    \cup {TakeSame(color) : color \in GemColor \cup {NoColor}}
    \cup {Reserve(level, NoCard) : level \in Levels \cup {NoLevel}}
    \cup {ReserveDeck(level) : level \in Levels \cup {NoLevel}}
    \cup UNION {{Reserve(level, id), Buy(level, id)} : level \in Levels, id \in DisplayedIds(1)}
    \cup UNION {{Buy(level, id) : id \in DisplayedIds(level)} : level \in Levels}
    \cup UNION {{BuyReserved(id) : id \in ReservedIds(seat)} : seat \in 0..(num_players - 1)}
    \cup {BuyReserved(id) : id \in DisplayedIds(1)}
    \cup {NoAction}

NextAny ==
    \/ /\ InTurn
       /\ \E action \in AnyActions : ExecuteAction(action)
    \/ NextPlayer

SpecAny == Init /\ [][NextAny]_vars

----------------------------------------------------------------------------
(* A Player on its own (SpecPlayer): get_actual_cost is asked for the
   payment of every card of the catalog.  The player holds up to MaxHeld
   tokens of each color, at most 10 in all, and owns the first cards that
   seat 1 of TenGems2 bought, in the order it bought them.  The method is
   pure, so each player is asked once.  No Game exists: its fields are
   None. *)

OwnedLists ==
    {SubSeq(TenGems2.players[1].cards, 1, n) : n \in 0..MaxOwned}

InitPlayer ==
    /\ \E gems \in [GemColor -> 0..MaxHeld], cards \in OwnedLists :
           /\ get_total_gems([gems |-> gems]) <= 10
           /\ players = Seats(<<[NewPlayer EXCEPT !.gems = gems, !.cards = cards]>>)
    /\ board = None
    /\ num_players = Absent
    /\ current_player_index = Absent
    /\ round_number = Absent
    /\ game_over = FALSE
    /\ winner = None
    /\ last_round = FALSE
    /\ last_player_index = Absent
    /\ history = <<>>
    /\ call = [op |-> "Player", card |-> None, ret |-> None]
    /\ turn = 0

GetActualCost(card) ==
    /\ call.op = "Player"
    /\ call' = [op |-> "get_actual_cost",
                card |-> card,
                ret |-> get_actual_cost(players[0], card)]
    /\ UNCHANGED <<board, players, num_players, current_player_index, round_number,
                   game_over, winner, last_round, last_player_index, history, turn>>

NextPlayerOnly ==
    \E i \in DOMAIN create_standard_cards : GetActualCost(create_standard_cards[i])

SpecPlayer == InitPlayer /\ [][NextPlayerOnly]_vars

----------------------------------------------------------------------------
(* Properties of the game under legal play (Spec) *)

SeatSet == 0..(num_players - 1)

\* tokens of a color held by all players together
HeldByPlayers(color) == SumSeq([i \in 1..num_players |-> players[i - 1].gems[color]])

\* C1: token conservation.  For each of the six colors the pool count plus
\* the players' holdings of that color equals the initial supply of the
\* color for the number of players (4/5/7 per non-Gold color, 5 Gold).
C1_TokenConservation ==
    \A color \in GemColor :
        board.gems[color] + HeldByPlayers(color) = _initialize_gems(num_players)[color]

\* a take of three colors has just forced the player to give tokens back
C1_Witness ==
    /\ call.op = "execute_action"
    /\ call.ret = "True"
    /\ call.action.action_type = TAKE_DIFFERENT_GEMS
    /\ call.discards # <<>>

CountIn(list, card) == Cardinality({i \in DOMAIN list : list[i] = card})

\* the number of places that hold the card: decks, displays, reserved
\* lists and owned lists
Occurrences(card) ==
    SumSeq([level \in 1..3 |-> CountIn(board.card_decks[level], card)
                               + CountIn(board.displayed_cards[level], card)])
    + SumSeq([i \in 1..num_players |-> CountIn(players[i - 1].reserved_cards, card)
                                       + CountIn(players[i - 1].cards, card)])

\* C2: card uniqueness.  Every card of the catalog is in exactly one place,
\* and never in the deck or the display of another level than its own.
C2_CardUniqueness ==
    \A i \in DOMAIN create_standard_cards :
        /\ Occurrences(create_standard_cards[i]) = 1
        /\ \A level \in Levels \ {create_standard_cards[i].level} :
               /\ CountIn(board.card_decks[level], create_standard_cards[i]) = 0
               /\ CountIn(board.displayed_cards[level], create_standard_cards[i]) = 0

\* a reserved card has just been bought, after an earlier turn changed the
\* display or a deck
C2_Witness ==
    /\ call.op = "execute_action"
    /\ call.ret = "True"
    /\ call.action.action_type = BUY_RESERVED_CARD
    /\ turn = 1

\* C3: token cap.  After every execute_action and at every turn boundary
\* every player holds at most 10 tokens.
C3_TokenCap ==
    \A seat \in SeatSet : get_total_gems(players[seat]) <= 10

\* a reserve has just granted a Gold to a player who held 10 tokens
C3_Witness ==
    /\ call.op = "execute_action"
    /\ call.ret = "True"
    /\ call.action.action_type = RESERVE_CARD
    /\ call.discards # <<>>
    /\ get_total_gems(players[current_player_index]) = 10

\* C4: the last round ends on time.  When the seat before the one that
\* triggered the last round has completed its turn, whatever it did, and
\* the seat has advanced to the triggering seat again, the game is over.
C4_LastRoundEndsOnTime ==
    (/\ call.op = "next_player"
     /\ last_round
     /\ current_player_index = last_player_index)
    => game_over

\* C5: the last round does not end early.  The call that sets game_over is
\* an execute_action of the seat before the one that triggered the last
\* round, made when the last round had already been triggered by an earlier
\* call; game_over is never true unless last_round is.
C5_LastRoundNotEarly ==
    [][/\ (game_over' /\ ~game_over) =>
              /\ last_round
              /\ call'.op = "execute_action"
              /\ (current_player_index + 1) % num_players = last_player_index
       /\ game_over' => last_round']_vars

\* a three-player game has ended
C5_Witness ==
    /\ game_over
    /\ num_players = 3
    /\ call.op = "execute_action"

\* turns a seat has taken: every loop iteration is one turn of the current
\* seat and ends with next_player, and the round number counts the passes
\* over seat 0
TurnsTaken(seat) ==
    (round_number - 1)
    + (IF \/ seat < current_player_index
          \/ seat = current_player_index /\ call.op = "execute_action"
       THEN 1 ELSE 0)

\* C6: equal turns at the end.  When game_over becomes true every player
\* has taken the same number of turns.
C6_EqualTurnsAtEnd ==
    (game_over /\ call.op = "execute_action")
    => \A s, t \in SeatSet : TurnsTaken(s) = TurnsTaken(t)

\* the players with the maximum score
TopScorers ==
    {s \in SeatSet : \A t \in SeatSet : get_score(players[s]) >= get_score(players[t])}

\* among them, the players with the fewest owned cards
FewestCards ==
    {s \in TopScorers : \A t \in TopScorers : Len(players[s].cards) <= Len(players[t].cards)}

\* C7: winner determination.  When the game is over, winner lists exactly
\* the players whose score is the maximum and whose owned-card count is the
\* minimum among the players with the maximum score, each once.
C7_WinnerDetermination ==
    game_over =>
        /\ winner # None
        /\ Range(winner) = FewestCards
        /\ Len(winner) = Cardinality(FewestCards)

\* the game has ended with two players on the maximum score and different
\* card counts
C7_Witness ==
    /\ game_over
    /\ \E s, t \in TopScorers : Len(players[s].cards) < Len(players[t].cards)

----------------------------------------------------------------------------
(* Properties of execute_action under any caller (SpecAny) *)

\* C8: a failure leaves the state unchanged.  Whenever execute_action
\* returns False, the board, the players and the seat, round, last-round
\* and game-over fields are what they were before the call.
C8_FailureKeepsState ==
    [][(call'.op = "execute_action" /\ call'.ret = "False") =>
           UNCHANGED <<board, players, num_players, current_player_index,
                       round_number, game_over, winner, last_round,
                       last_player_index>>]_vars

\* a reserve by a player holding three reserved cards has just failed
C8_Witness ==
    /\ call.op = "execute_action"
    /\ call.ret = "False"
    /\ call.action.action_type = RESERVE_CARD
    /\ ReserveLookup(call.action).found
    /\ Len(players[current_player_index].reserved_cards) >= 3

\* C9: illegal actions are rejected.  execute_action with an action that
\* get_valid_actions does not list returns False and changes neither the
\* board nor a player.
C9_IllegalActionsRejected ==
    [][(call'.op = "execute_action" /\ call'.action \notin Range(get_valid_actions)) =>
           (call'.ret = "False" /\ UNCHANGED <<board, players>>)]_vars

----------------------------------------------------------------------------
(* Properties of get_actual_cost (SpecPlayer) *)

\* what the card costs the player after the discounts of the owned cards
DiscountedCost(p, card) ==
    SumSeq([i \in DOMAIN GemOrder |->
                Max(0, card.cost[GemOrder[i]] - get_card_discounts(p)[GemOrder[i]])])

\* what get_actual_cost returned, over the six colors
Returned(ret) ==
    ret[WHITE] + ret[BLUE] + ret[GREEN] + ret[RED] + ret[BLACK] + ret[GOLD]

\* C10 as stated: for every player and every card get_actual_cost returns
\* no negative amount, and the amounts add up to the cost left after the
\* discounts.
C10_ActualCostCoversAlways ==
    call.op = "get_actual_cost" =>
        /\ \A color \in GemColor : call.ret[color] >= 0
        /\ Returned(call.ret) = DiscountedCost(players[0], call.card)

\* C10: for every player whose token counts are not negative and every
\* card, get_actual_cost returns no negative amount, and when the player
\* can afford the card the amounts add up to the cost left after the
\* discounts.
C10_ActualCostCovers ==
    call.op = "get_actual_cost" =>
        /\ \A color \in GemColor : call.ret[color] >= 0
        /\ can_afford_card(players[0], call.card) =>
               Returned(call.ret) = DiscountedCost(players[0], call.card)

\* an affordable card is paid with a discount, own tokens and two Gold
C10_Witness ==
    /\ call.op = "get_actual_cost"
    /\ can_afford_card(players[0], call.card)
    /\ call.ret[GOLD] = 2
    /\ \E color \in NonGold : call.ret[color] > 0
    /\ \E color \in NonGold :
           /\ call.card.cost[color] > 0
           /\ get_card_discounts(players[0])[color] > 0

\* C11: get_actual_cost never overdraws.  For every player and every card
\* it asks for no more tokens of any color than the player holds, the Gold
\* added up over the short colors included.
C11_ActualCostNeverOverdraws ==
    call.op = "get_actual_cost" =>
        \A color \in GemColor : call.ret[color] <= players[0].gems[color]

----------------------------------------------------------------------------
(* Properties of the noble visit (Spec) *)

IsPurchase(c) ==
    /\ c.op = "execute_action"
    /\ c.ret = "True"
    /\ c.action.action_type \in {BUY_CARD, BUY_RESERVED_CARD}

\* the nobles of the board whose requirements the player meets, in board order
Qualifying(nobles, player) ==
    SelectSeq(nobles, LAMBDA noble :
        \A color \in NonGold :
            Cardinality({i \in DOMAIN player.cards : player.cards[i].gem_color = color})
                >= noble.requirements[color])

Without(nobles, noble) == SelectSeq(nobles, LAMBDA other : other # noble)

\* C12: noble visit.  A successful purchase gives the buyer the first noble
\* of the board whose requirements the buyer's cards meet after the
\* purchase, and only that one, and takes it off the board; it gives
\* nothing when no noble qualifies.  No other step changes the nobles of
\* the board or of a player, and no other player's nobles change.
C12_NobleVisit ==
    [][LET buyer == current_player_index
           qualifying == Qualifying(board.nobles, players'[buyer])
       IN  IF IsPurchase(call') /\ qualifying # <<>>
           THEN /\ players'[buyer].nobles = Append(players[buyer].nobles, qualifying[1])
                /\ board'.nobles = Without(board.nobles, qualifying[1])
                /\ \A seat \in SeatSet \ {buyer} : players'[seat].nobles = players[seat].nobles
           ELSE /\ board'.nobles = board.nobles
                /\ \A seat \in SeatSet : players'[seat].nobles = players[seat].nobles]_vars

\* the card just bought brought the buyer one noble, and the buyer meets
\* the requirements of another noble that stays on the board
C12_Witness ==
    /\ IsPurchase(call)
    /\ LET buyer == players[current_player_index]
       IN  /\ buyer.nobles # <<>>
           /\ Qualifying(<<buyer.nobles[Len(buyer.nobles)]>>,
                         [buyer EXCEPT !.cards = SubSeq(@, 1, Len(@) - 1)]) = <<>>
           /\ Qualifying(board.nobles, buyer) # <<>>

----------------------------------------------------------------------------
(* Properties of the forced discard (Spec) *)

\* the tokens a take or a reserve hands to the player, by color
Gain(action, pool) ==
    [color \in GemColor |->
        CASE action.action_type = TAKE_DIFFERENT_GEMS ->
                 Cardinality({i \in DOMAIN action.colors : action.colors[i] = color})
          [] action.action_type = TAKE_SAME_GEMS ->
                 IF action.color = color THEN 2 ELSE 0
          [] action.action_type = RESERVE_CARD ->
                 IF color = GOLD /\ pool[GOLD] > 0 THEN 1 ELSE 0
          [] OTHER -> 0]

TotalOf(gems) ==
    gems[WHITE] + gems[BLUE] + gems[GREEN] + gems[RED] + gems[BLACK] + gems[GOLD]

\* C13: the forced discard is exact.  When a take or a reserve brings the
\* acting player to T tokens, T > 10, exactly T - 10 tokens go from that
\* player to the pool before the action returns, none of a color the
\* player does not hold, and the player is left with 10; when T <= 10
\* nothing is discarded.
C13_ForcedDiscardExact ==
    [][(/\ call'.op = "execute_action"
        /\ call'.ret = "True"
        /\ call'.action.action_type \in {TAKE_DIFFERENT_GEMS, TAKE_SAME_GEMS, RESERVE_CARD})
       => LET seat == current_player_index
              gain == Gain(call'.action, board.gems)
              T == TotalOf(players[seat].gems) + TotalOf(gain)
              discarded == [color \in GemColor |->
                               players[seat].gems[color] + gain[color]
                               - players'[seat].gems[color]]
          IN  /\ \A color \in GemColor :
                     /\ discarded[color] >= 0
                     /\ players'[seat].gems[color] >= 0
                     /\ board'.gems[color] = board.gems[color] - gain[color] + discarded[color]
              /\ TotalOf(discarded) = IF T > 10 THEN T - 10 ELSE 0
              /\ TotalOf(players'[seat].gems) = IF T > 10 THEN 10 ELSE T]_vars

\* a player holding 9 tokens has taken two of one color and discarded one
C13_Witness ==
    /\ call.op = "execute_action"
    /\ call.ret = "True"
    /\ call.action.action_type = TAKE_SAME_GEMS
    /\ Len(call.discards) = 1
    /\ TotalOf(players[current_player_index].gems) = 10

----------------------------------------------------------------------------
(* Properties of the history (SpecAny) *)

\* C14: the history is complete and append-only.  Every call of
\* execute_action, successful or not, appends exactly one record with the
\* round number and the acting player as of the call and the action; the
\* records already there stay as they are, in their order; next_player
\* appends nothing.
C14_HistoryAppendOnly ==
    [][IF call'.op = "execute_action"
       THEN history' = Append(history, [round |-> round_number,
                                        player |-> current_player_index,
                                        action |-> call'.action])
       ELSE history' = history]_vars

\* a failed action has been recorded after the records of earlier turns
C14_Witness ==
    /\ call.op = "execute_action"
    /\ call.ret = "False"
    /\ Len(history) >= 2
    /\ history[Len(history)] = [round |-> round_number,
                                player |-> current_player_index,
                                action |-> call.action]

----------------------------------------------------------------------------
(* Properties of the legal-action generator (Spec) *)

\* the pool holds no token of a color other than Gold
PoolHasOnlyGold == \A color \in NonGold : board.gems[color] = 0

\* the current player may reserve: fewer than three reserved cards and a
\* card left in some display or deck
CanReserve ==
    /\ Len(players[current_player_index].reserved_cards) < 3
    /\ \E level \in Levels :
           board.displayed_cards[level] # <<>> \/ board.card_decks[level] # <<>>

\* the current player can afford a displayed card or one of its reserved cards
CanBuy ==
    \/ \E level \in Levels : \E i \in DOMAIN board.displayed_cards[level] :
           can_afford_card(players[current_player_index], board.displayed_cards[level][i])
    \/ \E i \in DOMAIN players[current_player_index].reserved_cards :
           can_afford_card(players[current_player_index],
                           players[current_player_index].reserved_cards[i])

Degenerate == PoolHasOnlyGold /\ ~CanReserve /\ ~CanBuy

\* C15: a degenerate state yields no action.  When the pool holds no token
\* but Gold and the current player can neither reserve nor afford a card,
\* get_valid_actions returns the empty list.
C15_DegenerateYieldsNoAction ==
    (~game_over /\ Degenerate) => get_valid_actions = <<>>

----------------------------------------------------------------------------
(* Properties of the displays and the nobles (Spec) *)

\* C16: display fill.  For each level the display holds at most 4 cards,
\* and exactly 4 unless the deck of the level is empty; this holds after
\* every reserve and buy that takes a card from a display.
C16_DisplayFill ==
    \A level \in Levels :
        /\ Len(board.displayed_cards[level]) <= 4
        /\ board.card_decks[level] # <<>> => Len(board.displayed_cards[level]) = 4

\* a displayed card has just been taken from a level whose deck is empty,
\* and another from a level that was refilled
C16_Witness ==
    /\ call.op = "execute_action"
    /\ call.ret = "True"
    /\ call.action.action_type \in {BUY_CARD, RESERVE_CARD}
    /\ ~call.action.from_deck
    /\ \E level \in Levels :
           /\ board.card_decks[level] = <<>>
           /\ Len(board.displayed_cards[level]) < 4
    /\ \E i \in DOMAIN history :
           /\ history[i].action.action_type \in {BUY_CARD, RESERVE_CARD}
           /\ ~history[i].action.from_deck
           /\ board.card_decks[history[i].action.level] # <<>>

\* the nobles in play: on the board or with a player
NoblesInPlay ==
    Range(board.nobles) \cup UNION {Range(players[seat].nobles) : seat \in SeatSet}

\* every noble is in at most one place and there are num_players + 1 of them
NoblesOnce ==
    /\ Len(board.nobles) + SumSeq([i \in 1..num_players |-> Len(players[i - 1].nobles)])
           = num_players + 1
    /\ Cardinality(NoblesInPlay) = num_players + 1
    /\ NoblesInPlay \subseteq Range(create_standard_nobles)

\* C17: noble conservation.  The nobles on the board and with the players
\* are always the num_players + 1 nobles of the setup, each in exactly one
\* place, and a noble that has left the board never returns to it.
C17_NobleConservation ==
    /\ NoblesOnce
    /\ [][/\ NoblesOnce'
          /\ NoblesInPlay' = NoblesInPlay
          /\ Range(board'.nobles) \subseteq Range(board.nobles)]_vars

\* a noble has left the board for a player
C17_Witness ==
    /\ Len(board.nobles) = num_players
    /\ \E seat \in SeatSet : Len(players[seat].nobles) = 1
    /\ call.op = "next_player"

----------------------------------------------------------------------------
(* Game.play_round and the loop of Game.play_game (SpecRound).  play_round
   picks one of the valid actions with random.choice, executes it and
   calls next_player when it succeeded; with no valid action it calls
   next_player at once.  call holds what play_round returns: for an
   executed action it is the record of that execute_action. *)

\* play_round without the test of game_over: a turn is played although
\* the game has ended
play_round_after_end ==
    IF get_valid_actions = <<>>
    THEN /\ next_player
         /\ call' = [op |-> "play_round", action |-> NoAction, ret |-> "True",
                     discards |-> <<>>]
    ELSE \E action \in Range(get_valid_actions) :
             /\ history' = Append(history, [round |-> round_number,
                                            player |-> current_player_index,
                                            action |-> action])
             /\ CASE action.action_type = TAKE_DIFFERENT_GEMS ->
                         _execute_take_different_gems(current_player_index, action)
                  [] action.action_type = TAKE_SAME_GEMS ->
                         _execute_take_same_gems(current_player_index, action)
                  [] action.action_type = RESERVE_CARD ->
                         _execute_reserve_card(current_player_index, action)
                  [] action.action_type = BUY_CARD ->
                         _execute_buy_card(current_player_index, action)
                  [] action.action_type = BUY_RESERVED_CARD ->
                         _execute_buy_reserved_card(current_player_index, action)
                  [] OTHER -> Fails(action)
             /\ IF call'.ret = "True"
                THEN /\ current_player_index' = (current_player_index + 1) % num_players
                     /\ round_number' = IF (current_player_index + 1) % num_players = 0
                                        THEN round_number + 1
                                        ELSE round_number
                ELSE UNCHANGED <<current_player_index, round_number>>
             /\ UNCHANGED num_players

play_round ==
    IF game_over
    THEN /\ call' = [op |-> "play_round", action |-> NoAction, ret |-> "False",
                     discards |-> <<>>]
         /\ UNCHANGED <<board, players, num_players, current_player_index, round_number,
                        game_over, winner, last_round, last_player_index, history>>
    ELSE IF get_valid_actions = <<>>
    THEN /\ next_player
         /\ call' = [op |-> "play_round", action |-> NoAction, ret |-> "True",
                     discards |-> <<>>]
    ELSE \E action \in Range(get_valid_actions) :
             /\ history' = Append(history, [round |-> round_number,
                                            player |-> current_player_index,
                                            action |-> action])
             /\ CASE action.action_type = TAKE_DIFFERENT_GEMS ->
                         _execute_take_different_gems(current_player_index, action)
                  [] action.action_type = TAKE_SAME_GEMS ->
                         _execute_take_same_gems(current_player_index, action)
                  [] action.action_type = RESERVE_CARD ->
                         _execute_reserve_card(current_player_index, action)
                  [] action.action_type = BUY_CARD ->
                         _execute_buy_card(current_player_index, action)
                  [] action.action_type = BUY_RESERVED_CARD ->
                         _execute_buy_reserved_card(current_player_index, action)
                  [] OTHER -> Fails(action)
             /\ IF call'.ret = "True"
                THEN /\ current_player_index' = (current_player_index + 1) % num_players
                     /\ round_number' = IF (current_player_index + 1) % num_players = 0
                                        THEN round_number + 1
                                        ELSE round_number
                ELSE UNCHANGED <<current_player_index, round_number>>
             /\ UNCHANGED num_players

\* one call of play_round, by play_game or by another caller; the calls
\* on a game that has ended change nothing and are not counted
PlayRound ==
    /\ turn < MaxTurns \/ game_over
    /\ play_round
    /\ turn' = IF game_over THEN turn ELSE turn + 1

SpecRound == Init /\ [][PlayRound]_vars

\* C18: match progress.  From every state in which the game is not over,
\* play_round returns True and leaves the next seat to move.
C18_MatchProgress ==
    [][~game_over =>
           /\ call'.ret = "True"
           /\ current_player_index' = (current_player_index + 1) % num_players]_vars

----------------------------------------------------------------------------
(* Properties of the token actions (Spec, SpecAny) *)

\* how often the color occurs in the list
CountColor(list, color) == Cardinality({i \in DOMAIN list : list[i] = color})

\* the colors other than Gold with a token in the pool
AvailableColors == {color \in NonGold : board.gems[color] > 0}

\* the color lists of the take-different actions among the valid actions,
\* in their order
TakeDifferentLists(valid) ==
    LET picked == SelectSeq(valid, LAMBDA action : action.action_type = TAKE_DIFFERENT_GEMS)
    IN  [i \in DOMAIN picked |-> picked[i].colors]

TakeDifferentGenerated ==
    \A lists \in {TakeDifferentLists(get_valid_actions)} :
    \A available \in {AvailableColors} :
    \A triples \in {{S \in SUBSET available : Cardinality(S) = 3}} :
        /\ \A i \in DOMAIN lists :
               /\ GOLD \notin Range(lists[i])
               /\ Cardinality(Range(lists[i])) = Len(lists[i])
        /\ Cardinality(available) >= 3 =>
               /\ {Range(lists[i]) : i \in DOMAIN lists} = triples
               /\ Len(lists) = Cardinality(triples)
               /\ \A i \in DOMAIN lists : Len(lists[i]) = 3
        /\ Cardinality(available) \in {1, 2} =>
               /\ Len(lists) = 1
               /\ Range(lists[1]) = available
               /\ Len(lists[1]) = Cardinality(available)

\* the tokens move between the pool and the acting player only: the gain
\* comes from the pool, the discards recorded for the call go back to it
TokensMoved(gain) ==
    LET seat == current_player_index
    IN  /\ \A color \in GemColor :
               /\ players'[seat].gems[color] =
                      players[seat].gems[color] + gain[color]
                      - CountColor(call'.discards, color)
               /\ board'.gems[color] =
                      board.gems[color] - gain[color]
                      + CountColor(call'.discards, color)
        /\ \A other \in SeatSet \ {seat} : players'[other] = players[other]

\* C19: take-different, generation and effect.  With k >= 3 colors other
\* than Gold in the pool the valid actions hold exactly one take-different
\* for each of the C(k,3) triples of those colors; with k = 1 or 2 they
\* hold a single take-different listing exactly those k colors; none lists
\* Gold.  Executing one moves one token of each listed color from the pool
\* to the acting player, before any forced discard.
C19_TakeDifferent ==
    /\ []TakeDifferentGenerated
    /\ [][(/\ call'.op = "execute_action"
           /\ call'.ret = "True"
           /\ call'.action.action_type = TAKE_DIFFERENT_GEMS)
          => TokensMoved([color \in GemColor |->
                             CountColor(call'.action.colors, color)])]_vars

\* the single take-different over the two colors left in the pool has been
\* executed
C19_Witness ==
    /\ call.op = "execute_action"
    /\ call.ret = "True"
    /\ call.action.action_type = TAKE_DIFFERENT_GEMS
    /\ Len(call.action.colors) = 2


-----------------------------------------------------------------------------
(* Taking two tokens of one color, under any caller (SpecAny) *)

\* get_valid_actions lists take-same of a color exactly when the color is
\* not Gold and the pool holds four or more of it, and lists no other
\* take-same action
TakeSameGenerated ==
    \A actions \in {Range(get_valid_actions)} :
        /\ \A color \in GemColor :
               TakeSame(color) \in actions
                   <=> (color # GOLD /\ board.gems[color] >= 4)
        /\ \A action \in actions :
               action.action_type = TAKE_SAME_GEMS
                   => action \in {TakeSame(color) : color \in GemColor}

\* C20: take-same generation and effect.  get_valid_actions contains
\* take-same of a color exactly when the color is not Gold and the pool
\* holds at least 4 of it; a successful take-same moves exactly 2 tokens of
\* the color from the pool to the acting player (the forced discard
\* follows), and the pool keeps at least 2 of the color; execute_action of
\* a take-same of a color with fewer than 4 in the pool returns False and
\* leaves board, players and the seat, round and end-of-game fields as
\* they were.
C20_TakeSame ==
    /\ []TakeSameGenerated
    /\ [][/\ (/\ call'.op = "execute_action"
              /\ call'.ret = "True"
              /\ call'.action.action_type = TAKE_SAME_GEMS)
             => /\ TokensMoved([color \in GemColor |->
                                   IF color = call'.action.color THEN 2 ELSE 0])
                /\ board.gems[call'.action.color] - 2 >= 2
                /\ board'.gems[call'.action.color] >= 2
          /\ (/\ call'.op = "execute_action"
              /\ call'.action.action_type = TAKE_SAME_GEMS
              /\ call'.action.color \in GemColor
              /\ board.gems[call'.action.color] < 4)
             => /\ call'.ret = "False"
                /\ UNCHANGED <<board, players, num_players, current_player_index,
                               round_number, game_over, winner, last_round,
                               last_player_index>>]_vars

\* a listed take-same has just succeeded on a pool of exactly four: the
\* player got both tokens, discarded nothing, and the pool holds two
C20_Witness ==
    /\ call.op = "execute_action"
    /\ call.ret = "True"
    /\ call.action.action_type = TAKE_SAME_GEMS
    /\ call.action.color \in GemColor \ {GOLD}
    /\ call.discards = <<>>
    /\ board.gems[call.action.color] = 2
    /\ players[current_player_index].gems[call.action.color] >= 2


-----------------------------------------------------------------------------
(* The limit of three reserved cards, under any caller (SpecAny) *)

\* the reserve actions of a list of actions, in order
ReserveActions(valid) ==
    SelectSeq(valid, LAMBDA action : action.action_type = RESERVE_CARD)

\* one reserve per displayed card and one per deck that is not empty
ReserveTargets ==
    UNION {{Reserve(level, board.displayed_cards[level][i].card_id) :
                i \in DOMAIN board.displayed_cards[level]} : level \in Levels}
    \cup {ReserveDeck(level) : level \in {l \in Levels : board.card_decks[l] # <<>>}}

\* get_valid_actions lists reserves exactly when the current player holds
\* fewer than three reserved cards, and then each target once
ReserveGenerated ==
    \A listed \in {ReserveActions(get_valid_actions)} :
        /\ listed # <<>> <=> Len(players[current_player_index].reserved_cards) < 3
        /\ listed # <<>> =>
               /\ Range(listed) = ReserveTargets
               /\ Len(listed) = Cardinality(ReserveTargets)

-----------------------------------------------------------------------------
(* The purchases get_valid_actions offers *)

\* the ids of the cards of a list
IdsOf(cards) == {cards[i].card_id : i \in DOMAIN cards}

\* the ids of the cards still in a deck
DeckIds == UNION {IdsOf(board.card_decks[level]) : level \in Levels}

\* a purchase from the display for each displayed card the current player
\* can afford
AffordableDisplayed ==
    UNION {{Buy(level, card.card_id) :
                card \in {c \in Range(board.displayed_cards[level]) :
                              can_afford_card(players[current_player_index], c)}} :
           level \in Levels}

\* a purchase from the reserve for each of the current player's reserved
\* cards the player can afford
AffordableReserved ==
    {BuyReserved(card.card_id) :
         card \in {c \in Range(players[current_player_index].reserved_cards) :
                       can_afford_card(players[current_player_index], c)}}

\* C22: buy generation.  get_valid_actions contains a buy-displayed action
\* for a card exactly when the card is displayed and the current player
\* can afford it, and a buy-reserved action for a card exactly when the
\* card is in the current player's own reserved list and the player can
\* afford it; it offers no card reserved by another player and no card
\* still in a deck.
C22_BuyGeneration ==
    \A valid \in {Range(get_valid_actions)} :
        /\ {action \in valid : action.action_type = BUY_CARD} = AffordableDisplayed
        /\ {action \in valid : action.action_type = BUY_RESERVED_CARD} = AffordableReserved
        /\ \A action \in valid :
               action.action_type \in {BUY_CARD, BUY_RESERVED_CARD} =>
                   /\ action.card_id \notin DeckIds
                   /\ \A seat \in SeatSet \ {current_player_index} :
                          action.card_id \notin IdsOf(players[seat].reserved_cards)

\* both kinds of purchase are offered while a displayed card, one of the
\* player's own reserved cards and a card reserved by another seat are
\* not: the first two are beyond the player's means
C22_Witness ==
    /\ AffordableDisplayed # {}
    /\ AffordableReserved # {}
    /\ \E level \in Levels : \E card \in Range(board.displayed_cards[level]) :
           ~can_afford_card(players[current_player_index], card)
    /\ \E card \in Range(players[current_player_index].reserved_cards) :
           ~can_afford_card(players[current_player_index], card)
    /\ \E seat \in SeatSet \ {current_player_index} :
           players[seat].reserved_cards # <<>>
    /\ AffordableDisplayed \cup AffordableReserved \subseteq Range(get_valid_actions)


-----------------------------------------------------------------------------
(* What a successful reserve changes *)

\* the card a reserve names: the top of the level's deck, or the displayed
\* card of the level with the id
NamedCard(action) ==
    IF action.from_deck
    THEN board.card_decks[action.level][Len(board.card_decks[action.level])]
    ELSE CHOOSE card \in Range(board.displayed_cards[action.level]) :
             card.card_id = action.card_id

\* a reserve that names a card: a level with a deck that is not empty, or
\* a level and the id of a card displayed there
NamesCard(action) ==
    /\ action.level \in Levels
    /\ IF action.from_deck
       THEN board.card_decks[action.level] # <<>>
       ELSE action.card_id \in IdsOf(board.displayed_cards[action.level])

\* C23: reserve effect.  A successful reserve moves exactly one card, the
\* named displayed card or the top card of the named level's deck, to the
\* end of the acting player's reserved list, and grants the player exactly
\* one Gold if and only if the pool held at least one Gold before the
\* action; with no Gold in the pool the reserve still succeeds and no
\* token count changes; the counts of the other colors change only through
\* the forced discard that follows a Gold grant.
C23_ReserveEffect ==
    [][\A seat \in {current_player_index} : \A action \in {call'.action} :
       /\ (/\ call'.op = "execute_action"
           /\ call'.ret = "True"
           /\ action.action_type = RESERVE_CARD)
          => /\ NamesCard(action)
             /\ players'[seat].reserved_cards =
                    Append(players[seat].reserved_cards, NamedCard(action))
             /\ players'[seat].cards = players[seat].cards
             /\ players'[seat].nobles = players[seat].nobles
             /\ NamedCard(action).card_id \notin
                    IdsOf(board'.card_decks[action.level])
                    \cup IdsOf(board'.displayed_cards[action.level])
             /\ \A level \in Levels \ {action.level} :
                    /\ board'.card_decks[level] = board.card_decks[level]
                    /\ board'.displayed_cards[level] = board.displayed_cards[level]
             /\ action.from_deck =>
                    /\ board'.displayed_cards = board.displayed_cards
                    /\ Len(board'.card_decks[action.level]) =
                           Len(board.card_decks[action.level]) - 1
             /\ board'.nobles = board.nobles
             /\ TokensMoved([color \in GemColor |->
                               IF color = GOLD /\ board.gems[GOLD] >= 1 THEN 1 ELSE 0])
             /\ board.gems[GOLD] = 0 =>
                    /\ call'.discards = <<>>
                    /\ board'.gems = board.gems
                    /\ players'[seat].gems = players[seat].gems
       /\ (/\ call'.op = "execute_action"
           /\ action.action_type = RESERVE_CARD
           /\ NamesCard(action)
           /\ Len(players[seat].reserved_cards) < 3
           /\ board.gems[GOLD] = 0)
          => call'.ret = "True"]_vars

\* a reserve from a deck has granted a Gold to a player holding ten
\* tokens, who returned a token of another color to the pool
C23_Witness ==
    /\ call.op = "execute_action"
    /\ call.ret = "True"
    /\ call.action.action_type = RESERVE_CARD
    /\ call.action.from_deck
    /\ call.discards # <<>>
    /\ GOLD \notin Range(call.discards)
    /\ TotalOf(players[current_player_index].gems) = 10


-----------------------------------------------------------------------------
(* What a successful purchase changes *)

\* the card a purchase names: the displayed card of the level with the id,
\* or the acting player's reserved card with the id
BoughtCard(action) ==
    IF action.action_type = BUY_CARD
    THEN CHOOSE card \in Range(board.displayed_cards[action.level]) :
             card.card_id = action.card_id
    ELSE CHOOSE card \in Range(players[current_player_index].reserved_cards) :
             card.card_id = action.card_id

\* a list without the cards of an id, the order of the others kept
WithoutId(cards, card_id) ==
    SelectSeq(cards, LAMBDA card : card.card_id # card_id)

\* C24: buy effect.  On a successful buy, from the display or from the
\* reserve, for every color the buyer's holding decreases by exactly
\* get_actual_cost(card) of that color and the pool's count increases by
\* the same amount, colors absent from the actual cost unchanged for
\* both; the card moves from its source to the end of the buyer's owned
\* list; buying a reserved card leaves all displays and decks unchanged;
\* no other player's state changes.
C24_BuyEffect ==
    [][\A seat \in {current_player_index} : \A action \in {call'.action} :
       (/\ call'.op = "execute_action"
        /\ call'.ret = "True"
        /\ IsPurchase(call'))
       => \A card \in {BoughtCard(action)} :
          \A actual_cost \in {get_actual_cost(players[seat], card)} :
              /\ \A color \in GemColor :
                     /\ actual_cost[color] >= 0
                     /\ players'[seat].gems[color] =
                            players[seat].gems[color] - actual_cost[color]
                     /\ board'.gems[color] = board.gems[color] + actual_cost[color]
              /\ players'[seat].cards = Append(players[seat].cards, card)
              /\ action.action_type = BUY_CARD =>
                     /\ card.card_id \notin IdsOf(board'.displayed_cards[action.level])
                     /\ players'[seat].reserved_cards = players[seat].reserved_cards
              /\ action.action_type = BUY_RESERVED_CARD =>
                     /\ players'[seat].reserved_cards =
                            WithoutId(players[seat].reserved_cards, card.card_id)
                     /\ Len(players'[seat].reserved_cards) =
                            Len(players[seat].reserved_cards) - 1
                     /\ board'.displayed_cards = board.displayed_cards
                     /\ board'.card_decks = board.card_decks
              /\ \A other \in SeatSet \ {seat} : players'[other] = players[other]]_vars

\* a reserved card has just been bought: it is the last of the
\* buyer's owned cards, and the buyer still holds another reserved card
C24_Witness ==
    /\ call.op = "execute_action"
    /\ call.ret = "True"
    /\ call.action.action_type = BUY_RESERVED_CARD
    /\ \A cards \in {players[current_player_index].cards} :
           /\ cards # <<>>
           /\ cards[Len(cards)].card_id = call.action.card_id
    /\ players[current_player_index].reserved_cards # <<>>


-----------------------------------------------------------------------------
(* can_afford_card against get_actual_cost (SpecPlayer) *)

\* what the player lacks of a color of the cost after the discount and
\* the tokens held
Shortfall(p, card, color) ==
    Max(0, card.cost[color] - get_card_discounts(p)[color] - p.gems[color])

TotalShortfall(p, card) ==
    SumSeq([i \in DOMAIN GemOrder |-> Shortfall(p, card, GemOrder[i])])

\* C25: affordability matches payment.  For every player and card,
\* can_afford_card is true exactly when the total shortfall, the sum over
\* the cost colors of max(0, cost - discount - held), is at most the Gold
\* held; and whenever it is true get_actual_cost pays of each cost color
\* exactly min(held, max(0, cost - discount)) and exactly the total
\* shortfall in Gold, so the player's holdings cover the payment.
C25_AffordMatchesPayment ==
    call.op = "get_actual_cost" =>
        \A p \in {players[0]} : \A card \in {call.card} :
            /\ can_afford_card(p, card) <=> TotalShortfall(p, card) <= p.gems[GOLD]
            /\ can_afford_card(p, card) =>
                   /\ \A color \in NonGold :
                          call.ret[color] =
                              Min(p.gems[color],
                                  Max(0, card.cost[color] - get_card_discounts(p)[color]))
                   /\ call.ret[GOLD] = TotalShortfall(p, card)
                   /\ \A color \in GemColor : call.ret[color] <= p.gems[color]

\* an affordable card for which the player is short of two colors, one
\* Gold standing in for each
C25_Witness ==
    /\ call.op = "get_actual_cost"
    /\ can_afford_card(players[0], call.card)
    /\ Cardinality({color \in NonGold : Shortfall(players[0], call.card, color) = 1}) = 2
    /\ call.ret[GOLD] = 2


-----------------------------------------------------------------------------
(* The start of the last round *)

\* the seats whose score is 15 or more
SeatsAt15 == {seat \in SeatSet : get_score(players[seat]) >= 15}

\* C26: last-round trigger.  In every state, the turn boundaries
\* included, last_round is true if and only if some player's score is at
\* least 15; it is set by the first purchase after which a score reaches
\* 15, with the purchasing seat recorded as the trigger index; once set,
\* neither last_round nor the trigger index ever changes, even if further
\* players reach 15.
C26_LastRoundTrigger ==
    /\ [](last_round <=> SeatsAt15 # {})
    /\ [][/\ (~last_round /\ last_round')
             => /\ IsPurchase(call')
                /\ SeatsAt15 = {}
                /\ SeatsAt15' # {}
                /\ last_player_index' = current_player_index
          /\ last_round
             => /\ last_round'
                /\ last_player_index' = last_player_index]_vars

\* a second seat has reached 15 with its purchase while the trigger index
\* still names the seat that reached 15 first
C26_Witness ==
    /\ IsPurchase(call)
    /\ last_round
    /\ last_player_index # current_player_index
    /\ get_score(players[last_player_index]) >= 15
    /\ \A cards \in {players[current_player_index].cards} :
           /\ cards # <<>>
           /\ get_score(players[current_player_index]) >= 15
           /\ get_score(players[current_player_index]) - cards[Len(cards)].points < 15


-----------------------------------------------------------------------------
(* A Board on its own (SpecBoard): take_gems is called with every request
   of up to MaxAsked colors, 1..MaxTake tokens of each, on the board of a
   new game whose pool holds 0..MaxPool tokens of each color.  No Game
   exists: its fields are None. *)

Requests ==
    UNION {[asked -> 1..MaxTake] :
               asked \in {S \in SUBSET GemColor : Cardinality(S) <= MaxAsked}}

InitBoard ==
    /\ \E gems \in [GemColor -> 0..MaxPool] :
           board = [NewGame2.board EXCEPT !.gems = gems]
    /\ players = None
    /\ num_players = Absent
    /\ current_player_index = Absent
    /\ round_number = Absent
    /\ game_over = FALSE
    /\ winner = None
    /\ last_round = FALSE
    /\ last_player_index = Absent
    /\ history = <<>>
    /\ call = [op |-> "Board", gems_to_take |-> <<>>, ret |-> "None"]
    /\ turn = 0

TakeGems(gems_to_take) ==
    /\ call.op = "Board"
    /\ board' = [board EXCEPT !.gems = take_gems(board.gems, gems_to_take).gems]
    /\ call' = [op |-> "take_gems",
                gems_to_take |-> gems_to_take,
                ret |-> IF take_gems(board.gems, gems_to_take).ok
                        THEN "True"
                        ELSE "False"]
    /\ UNCHANGED <<players, num_players, current_player_index, round_number,
                   game_over, winner, last_round, last_player_index, history, turn>>

NextBoard ==
    \E gems_to_take \in Requests : TakeGems(gems_to_take)

SpecBoard == InitBoard /\ [][NextBoard]_vars

\* C27: atomic pool withdrawal.  Board.take_gems with a request in which
\* any color exceeds the pool count returns False and leaves every pool
\* count unchanged, the colors that were sufficient included; otherwise it
\* returns True and decrements each requested color by exactly the
\* requested amount and no other color.
C27_AtomicWithdrawal ==
    [][call'.op = "take_gems" =>
       \A asked \in {call'.gems_to_take} :
           /\ (\E color \in DOMAIN asked : asked[color] > board.gems[color])
              => /\ call'.ret = "False"
                 /\ board' = board
           /\ (\A color \in DOMAIN asked : asked[color] <= board.gems[color])
              => /\ call'.ret = "True"
                 /\ \A color \in DOMAIN asked :
                        board'.gems[color] = board.gems[color] - asked[color]
                 /\ \A color \in GemColor \ DOMAIN asked :
                        board'.gems[color] = board.gems[color]
                 /\ [board' EXCEPT !.gems = board.gems] = board]_vars

\* a request of three colors has been refused for want of one of them
\* while the pool has what was asked of the other two
C27_Witness ==
    /\ call.op = "take_gems"
    /\ call.ret = "False"
    /\ Cardinality(DOMAIN call.gems_to_take) = 3
    /\ Cardinality({color \in DOMAIN call.gems_to_take :
                        call.gems_to_take[color] > board.gems[color]}) = 1


-----------------------------------------------------------------------------
(* Owned and reserved cards over time, under any caller (SpecAny) *)

\* C28: owned cards are append-only.  A card once in a player's owned list
\* never leaves it and the order of the list never changes, so each
\* player's score and each discount never decrease; a card leaves a
\* player's reserved list only when that same player buys it.
C28_OwnedAppendOnly ==
    [][\A seat \in SeatSet :
       \A before \in {players[seat]} : \A after \in {players'[seat]} :
           /\ Len(after.cards) >= Len(before.cards)
           /\ SubSeq(after.cards, 1, Len(before.cards)) = before.cards
           /\ get_score(after) >= get_score(before)
           /\ \A color \in NonGold :
                  get_card_discounts(after)[color] >= get_card_discounts(before)[color]
           /\ \A card \in Range(before.reserved_cards) \ Range(after.reserved_cards) :
                  /\ IsPurchase(call')
                  /\ call'.action.action_type = BUY_RESERVED_CARD
                  /\ call'.action.card_id = card.card_id
                  /\ seat = current_player_index
                  /\ after.cards = Append(before.cards, card)]_vars

\* a player who owned cards has bought a reserved card of a color the
\* player already had: the card is the last of three or more, and the
\* discount of its color is two or more
C28_Witness ==
    /\ IsPurchase(call)
    /\ call.action.action_type = BUY_RESERVED_CARD
    /\ \A cards \in {players[current_player_index].cards} :
           /\ Len(cards) >= 3
           /\ cards[Len(cards)].card_id = call.action.card_id
           /\ get_card_discounts(players[current_player_index])[cards[Len(cards)].gem_color] >= 2


-----------------------------------------------------------------------------
(* The valid actions against the handlers *)

\* C29: legal-action soundness.  Every action returned by
\* get_valid_actions in a reachable state with game_over false, when
\* passed to execute_action in that state, returns True.
C29_LegalActionsSucceed ==
    [][call'.op = "execute_action" => call'.ret = "True"]_vars


-----------------------------------------------------------------------------
(* After the end of the game *)

\* C30: game over is terminal.  Once game_over is true it never becomes
\* false; play_round then returns False without changing board, players,
\* seat, round number or history; play_game and the loops of run_game and
\* Evaluator._run_game execute no further action, so the winner fixed at
\* that moment never changes.
C30_GameOverTerminal ==
    [][game_over =>
           /\ game_over'
           /\ UNCHANGED <<board, players, history, winner, last_round,
                          last_player_index, num_players>>
           /\ call'.op # "execute_action"
           /\ call'.op = "play_round" =>
                  /\ call'.ret = "False"
                  /\ UNCHANGED <<current_player_index, round_number>>]_vars

\* play_round has been called on a game that had ended and has returned
\* False; the winners are set
C30_Witness ==
    /\ game_over
    /\ call.op = "play_round"
    /\ call.ret = "False"
    /\ winner # None
    /\ winner # <<>>


-----------------------------------------------------------------------------
(* winner against the flags *)

\* C31: winner/flag consistency.  In every reachable state winner is None
\* while game_over is false; when game_over is true, last_round is true,
\* some player has a score of 15 or more, and winner is a non-empty list
\* of players each of whom has the maximum score among all players.
C31_WinnerFlagConsistency ==
    /\ ~game_over => winner = None
    /\ game_over =>
           /\ last_round
           /\ \E seat \in SeatSet : get_score(players[seat]) >= 15
           /\ winner # None
           /\ winner # <<>>
           /\ \A i \in DOMAIN winner :
                  /\ winner[i] \in SeatSet
                  /\ \A seat \in SeatSet :
                         get_score(players[winner[i]]) >= get_score(players[seat])

\* the game has ended with one winner, who has 15 or more, and a player
\* below 15 who is not a winner
C31_Witness ==
    /\ game_over
    /\ last_round
    /\ winner # None
    /\ Len(winner) = 1
    /\ get_score(players[winner[1]]) >= 15
    /\ \E seat \in SeatSet \ {winner[1]} : get_score(players[seat]) < 15


-----------------------------------------------------------------------------
(* Seat and round, under any caller (SpecAny) *)

\* C32: seat and round sequencing.  next_player sets current_player_index
\* to (index + 1) mod num_players and adds exactly 1 to round_number if
\* and only if the new index is 0, changing nothing else; in every
\* reachable state current_player_index is in 0..num_players-1;
\* round_number never decreases; execute_action never changes the seat or
\* the round number.
C32_SeatAndRound ==
    /\ [](current_player_index \in 0..(num_players - 1))
    /\ [][/\ round_number' >= round_number
          /\ call'.op = "next_player" =>
                 /\ current_player_index' = (current_player_index + 1) % num_players
                 /\ round_number' = IF current_player_index' = 0
                                    THEN round_number + 1
                                    ELSE round_number
                 /\ UNCHANGED <<board, players, num_players, game_over, winner,
                                last_round, last_player_index, history>>
          /\ call'.op = "execute_action" =>
                 UNCHANGED <<current_player_index, round_number>>]_vars

\* next_player has brought the seat of a three-player game back to 0 and
\* counted a round
C32_Witness ==
    /\ call.op = "next_player"
    /\ num_players = 3
    /\ current_player_index = 0
    /\ round_number >= 2
    /\ history # <<>>
    /\ history[Len(history)].player = 2
    /\ history[Len(history)].round = round_number - 1


-----------------------------------------------------------------------------
(* Token counts below zero *)

\* C33: no negative token counts.  In every state reached through the
\* actions get_valid_actions lists, every pool count and every player's
\* count of every color, Gold included, is at least 0; in particular a
\* listed buy never drives the buyer's Gold or another color below zero,
\* also when several cost colors are short and Gold covers them jointly.
C33_NoNegativeTokens ==
    \A color \in GemColor :
        /\ board.gems[color] >= 0
        /\ \A seat \in SeatSet : players[seat].gems[color] >= 0

\* the first move from GoldForTwo2 was the purchase of L1_G1, short of
\* blue and of red: the two Gold the buyer held have paid for them, and
\* the buyer is left with no Gold
C33_Witness ==
    /\ IsPurchase(call)
    /\ call.action = Buy(1, "L1_G1")
    /\ history = Append(GoldForTwo2.history, Record(4, 0, call.action))
    /\ Cardinality({color \in NonGold :
                        Shortfall(GoldForTwo2.players[0], CardOf("L1_G1"), color) = 1}) = 2
    /\ GoldForTwo2.players[0].gems[GOLD] = 2
    /\ players[0].gems[GOLD] = 0
    /\ board.gems[GOLD] = GoldForTwo2.board.gems[GOLD] + 2


-----------------------------------------------------------------------------
(* The loop of run_game and Evaluator._run_game to its end (SpecFair): the
   loop body is straight-line code, so the next_player call that closes an
   iteration is made whenever it is due. *)

SpecFair == Spec /\ WF_vars(NextPlayer)

\* C34: the driver loops always advance the seat.  Each iteration of the
\* loop of run_game and Evaluator._run_game calls next_player exactly
\* once: after every execute_action, one that returned False included,
\* the next step is the next_player call, which moves the seat on by one,
\* and it is made; a failed action forfeits the turn with board and
\* players unchanged.
C34_DriverAdvancesSeat ==
    /\ [][/\ call.op = "execute_action" =>
                 /\ call'.op = "next_player"
                 /\ current_player_index' = (current_player_index + 1) % num_players
                 /\ UNCHANGED <<board, players>>
          /\ call.op = "next_player" => call'.op = "execute_action"
          /\ (call'.op = "execute_action" /\ call'.ret = "False") =>
                 UNCHANGED <<board, players, current_player_index>>]_vars
    /\ (call.op = "execute_action") ~> (call.op = "next_player")

\* the player to move in NoMove2 has lost the turn on a failed action:
\* board and players are as they were and the other seat is to move
C34_Witness ==
    /\ call.op = "next_player"
    /\ history = Append(NoMove2.history,
                        Record(NoMove2.round_number, NoMove2.current_player_index,
                               TakeDifferent(<<>>)))
    /\ board = NoMove2.board
    /\ players = NoMove2.players
    /\ current_player_index = (NoMove2.current_player_index + 1) % num_players

====
